---- MODULE Spec2Model ----
(***************************************************************************)
(* A model of the snippets of the alx-react repository: the NotificationItem *)
(* component, the WithLogging higher-order component, and the reducers,     *)
(* counters, action creators and thunks of the guides.  The snippets share  *)
(* no state, so each has its own variables, its own next-state relation and *)
(* its own specification; all start from the one initial state Init.        *)
(***************************************************************************)
EXTENDS Integers, Sequences, FiniteSets, TLC

VARIABLES
    \* NotificationItem: the props of the latest render, what it returned,
    \* and an earlier render
    niProps, niOut, niEarlier,
    \* WithLogging: the wrapped component W, the component WithLogging(W)
    \* returned, its instances, and the console
    wrapped, hoc, inst, log,
    \* Reducers: the objects allocated so far, the reducer the store was
    \* created with, the store's current state, and the calls made so far
    heap, reducer, current, calls,
    \* Counter: which of the two Counter components is mounted, the count
    \* React holds for it, the updates queued by setCount, the count the
    \* latest render captured, the texts shown so far, the number of
    \* increment calls and the number of updates each render consumed
    ctrForm, ctrCount, ctrQueue, ctrCaptured, ctrShown, ctrIncrements, ctrBatches,
    \* fetchTodos: the executions of the thunk, each with its place in the
    \* promise chain and the actions it dispatched
    thunks,
    \* addTodoActionCreator: the calls made, each with its argument and the
    \* action returned
    created,
    \* Selectors: the arrays allocated so far, the one that is state.items,
    \* and the latest call of a selector
    arrays, itemsRef, lastSelect,
    \* Normalizr: the latest call of normalize, its input and its output
    normalized,
    \* Immutable.js: the List objects made so far (a List is referred to by its
    \* index) and the latest call of push
    lists, lastPush,
    \* Timer: the instances made so far, the browser's running intervals, the
    \* number of setInterval calls, and the console
    timers, intervals, issued, tmLog,
    \* Counter with useEffect: whether it is mounted, its count, the queued
    \* updates, the dependencies of the latest render, the effect waiting to
    \* run, document.title, and the number of increment calls
    efMounted, efCount, efQueue, efDeps, efPending, efTitle, efIncrements,
    \* ControlledInput: whether it is mounted, its state value, the queued
    \* updates, what the latest render returned, and the texts of the change
    \* events so far
    ciMounted, ciValue, ciQueue, ciOut, ciEvents,
    \* LifecycleDemo: the instances made so far, the console (each line with
    \* the instance that logged it) and the number of updates so far
    demos, ldLog, ldUpdates,
    \* OptimizedComponent: whether it is mounted, its props, the text it
    \* rendered, the number of its renders, and the latest update
    ocMounted, ocProps, ocOut, ocRenders, ocLast,
    \* getVisibleItems: the item arrays and the state objects made so far (each
    \* referred to by its index), the store's state, what the selector
    \* remembers, its latest call, and the number of its calls
    vsArrays, vsStates, vsState, vsCache, vsLast, vsCalls,
    \* articleReducer: the state objects made so far (each referred to by its
    \* index), the store's state, the latest call of the reducer, and the
    \* number of actions dispatched
    arHeap, arCurrent, arLast, arCount,
    \* MyForm: whether it is mounted, its state formData, the formData the
    \* latest render captured, the queued updates, what the latest render
    \* returned, the console, and the latest event
    mfMounted, mfFormData, mfCaptured, mfQueue, mfOut, mfLog, mfLast,
    \* useWindowWidth: the components using the hook made so far, the resize
    \* listeners of window, the number of listener functions made,
    \* window.innerWidth, and the number of resize events
    wwComps, wwListeners, wwIssued, wwInnerWidth, wwResizes

niVars == <<niProps, niOut, niEarlier>>
wlVars == <<wrapped, hoc, inst, log>>
rdVars == <<heap, reducer, current, calls>>
ctrVars == <<ctrForm, ctrCount, ctrQueue, ctrCaptured, ctrShown, ctrIncrements,
             ctrBatches>>
acVars == <<thunks, created>>
slVars == <<arrays, itemsRef, lastSelect>>
nzVars == <<normalized>>
imVars == <<lists, lastPush>>
tmVars == <<timers, intervals, issued, tmLog>>
efVars == <<efMounted, efCount, efQueue, efDeps, efPending, efTitle, efIncrements>>
ciVars == <<ciMounted, ciValue, ciQueue, ciOut, ciEvents>>
ldVars == <<demos, ldLog, ldUpdates>>
ocVars == <<ocMounted, ocProps, ocOut, ocRenders, ocLast>>
vsVars == <<vsArrays, vsStates, vsState, vsCache, vsLast, vsCalls>>
arVars == <<arHeap, arCurrent, arLast, arCount>>
mfVars == <<mfMounted, mfFormData, mfCaptured, mfQueue, mfOut, mfLog, mfLast>>
wwVars == <<wwComps, wwListeners, wwIssued, wwInnerWidth, wwResizes>>

vars == <<niVars, wlVars, rdVars, ctrVars, acVars, slVars, nzVars, imVars, tmVars, efVars, ciVars, ldVars, ocVars, vsVars, arVars, mfVars, wwVars>>

\* For each snippet, the variables of all the others, which it leaves alone.
otherThanNi == <<wlVars, rdVars, ctrVars, acVars, slVars, nzVars, imVars, tmVars, efVars, ciVars, ldVars, ocVars, vsVars, arVars, mfVars, wwVars>>
otherThanWl == <<niVars, rdVars, ctrVars, acVars, slVars, nzVars, imVars, tmVars, efVars, ciVars, ldVars, ocVars, vsVars, arVars, mfVars, wwVars>>
otherThanRd == <<niVars, wlVars, ctrVars, acVars, slVars, nzVars, imVars, tmVars, efVars, ciVars, ldVars, ocVars, vsVars, arVars, mfVars, wwVars>>
otherThanCtr == <<niVars, wlVars, rdVars, acVars, slVars, nzVars, imVars, tmVars, efVars, ciVars, ldVars, ocVars, vsVars, arVars, mfVars, wwVars>>
otherThanAc == <<niVars, wlVars, rdVars, ctrVars, slVars, nzVars, imVars, tmVars, efVars, ciVars, ldVars, ocVars, vsVars, arVars, mfVars, wwVars>>
otherThanNz == <<niVars, wlVars, rdVars, ctrVars, acVars, slVars, imVars, tmVars, efVars, ciVars, ldVars, ocVars, vsVars, arVars, mfVars, wwVars>>
otherThanSl == <<niVars, wlVars, rdVars, ctrVars, acVars, nzVars, imVars, tmVars, efVars, ciVars, ldVars, ocVars, vsVars, arVars, mfVars, wwVars>>
otherThanRdSl == <<niVars, wlVars, ctrVars, acVars, nzVars, imVars, tmVars, efVars, ciVars, ldVars, ocVars, vsVars, arVars, mfVars, wwVars>>
otherThanTm == <<niVars, wlVars, rdVars, ctrVars, acVars, slVars, nzVars, imVars, efVars, ciVars, ldVars, ocVars, vsVars, arVars, mfVars, wwVars>>
otherThanIm == <<niVars, wlVars, rdVars, ctrVars, acVars, slVars, nzVars, tmVars, efVars, ciVars, ldVars, ocVars, vsVars, arVars, mfVars, wwVars>>
otherThanCi == <<niVars, wlVars, rdVars, ctrVars, acVars, slVars, nzVars, imVars, tmVars, efVars, ldVars, ocVars, vsVars, arVars, mfVars, wwVars>>
otherThanEf == <<niVars, wlVars, rdVars, ctrVars, acVars, slVars, nzVars, imVars, tmVars, ciVars, ldVars, ocVars, vsVars, arVars, mfVars, wwVars>>
otherThanOc == <<niVars, wlVars, rdVars, ctrVars, acVars, slVars, nzVars, imVars, tmVars, efVars, ciVars, ldVars, vsVars, arVars, mfVars, wwVars>>
otherThanVs == <<niVars, wlVars, rdVars, ctrVars, acVars, slVars, nzVars, imVars, tmVars, efVars, ciVars, ldVars, ocVars, arVars, mfVars, wwVars>>
otherThanLd == <<niVars, wlVars, rdVars, ctrVars, acVars, slVars, nzVars, imVars, tmVars, efVars, ciVars, ocVars, vsVars, arVars, mfVars, wwVars>>
otherThanMf == <<niVars, wlVars, rdVars, ctrVars, acVars, slVars, nzVars, imVars, tmVars, efVars, ciVars, ldVars, ocVars, vsVars, arVars, wwVars>>
otherThanAr == <<niVars, wlVars, rdVars, ctrVars, acVars, slVars, nzVars, imVars, tmVars, efVars, ciVars, ldVars, ocVars, vsVars, mfVars, wwVars>>
otherThanWw == <<niVars, wlVars, rdVars, ctrVars, acVars, slVars, nzVars, imVars, tmVars, efVars, ciVars, ldVars, ocVars, vsVars, arVars, mfVars>>

(***************************************************************************)
(* JavaScript values: undefined, null, strings and numbers, each tagged    *)
(* with its type, and the truthiness test that &&, || and ?: apply.        *)
(***************************************************************************)
Undefined == [t |-> "undefined"]
Null == [t |-> "null"]
Str(s) == [t |-> "string", s |-> s]
Num(n) == [t |-> "number", n |-> n]

Truthy(v) ==
    CASE v.t = "string" -> v.s # ""
      [] v.t = "number" -> v.n # 0
      [] OTHER -> FALSE

(***************************************************************************)
(* NotificationItem                                                        *)
(***************************************************************************)
\* The props a caller may pass: absent, falsy and truthy ones of each.
TypeProps == {Undefined, Str(""), Str("urgent")}
ValueProps == {Undefined, Str(""), Num(0), Str("New course available")}
HtmlProps == {Undefined, Str(""), Str("<strong>Urgent requirement</strong>")}
Props == [type : TypeProps, value : ValueProps, html : HtmlProps]

\* <li data={type}>{value}</li>
ValueItem(type, value) == [tag |-> "li", data |-> type, children |-> value]

\* <li data-urgent dangerouslySetInnerHTML={{ __html: html }}></li>
MarkupItem(html) == [tag |-> "li", dataUrgent |-> TRUE, innerHTML |-> html]

\* A mutant: the markup item comes first.
NotificationItemMarkupFirst(p) ==
    << IF Truthy(p.html) THEN MarkupItem(p.html) ELSE Null,
       IF Truthy(p.type) /\ Truthy(p.value) THEN ValueItem(p.type, p.value) ELSE Null >>

\* A mutant: the first child tests type alone.
NotificationItemTypeOnly(p) ==
    << IF Truthy(p.type) THEN ValueItem(p.type, p.value) ELSE Null,
       IF Truthy(p.html) THEN MarkupItem(p.html) ELSE Null >>

\* The fragment's two children, each an element or null.
NotificationItem(p) ==
    << IF Truthy(p.type) /\ Truthy(p.value) THEN ValueItem(p.type, p.value) ELSE Null,
       IF Truthy(p.html) THEN MarkupItem(p.html) ELSE Null >>

\* What React puts in the DOM for a fragment: its children that are not null.
RECURSIVE Rendered(_)
Rendered(children) ==
    IF children = <<>> THEN <<>>
    ELSE IF Head(children) = Null THEN Rendered(Tail(children))
    ELSE <<Head(children)>> \o Rendered(Tail(children))

NotRendered == [rendered |-> FALSE]

InitNotificationItem ==
    /\ niProps = NotRendered
    /\ niOut = NotRendered
    /\ niEarlier = NotRendered

\* The earlier render remembered after one more render: the render before
\* that one when it is to be remembered, else the one remembered so far,
\* with a note of whether a render with other props has followed it.
Remembered(remember) ==
    IF niOut = NotRendered THEN niEarlier
    ELSE IF remember
    THEN [rendered |-> TRUE, props |-> niProps, out |-> niOut, between |-> FALSE]
    ELSE IF niEarlier = NotRendered THEN niEarlier
    ELSE [niEarlier EXCEPT !.between = @ \/ niProps # niEarlier.props]

\* A mutant: the component keeps the value item of its previous render
\* when the new props give none.
RenderNotificationItemKeepingItem(p, remember) ==
    /\ UNCHANGED <<otherThanNi>>
    /\ niEarlier' = Remembered(remember)
    /\ niProps' = p
    /\ niOut' = IF niOut # NotRendered /\ NotificationItem(p)[1] = Null
                THEN <<niOut[1], NotificationItem(p)[2]>>
                ELSE NotificationItem(p)

\* React renders the component with props p.  The render before it is
\* remembered, or the one remembered so far is kept.
RenderNotificationItem(p, remember) ==
    /\ UNCHANGED <<otherThanNi>>
    /\ niEarlier' = Remembered(remember)
    /\ niProps' = p
    /\ niOut' = NotificationItem(p)

NextNotificationItem ==
    \E p \in Props, remember \in BOOLEAN : RenderNotificationItem(p, remember)

(***************************************************************************)
(* WithLogging                                                             *)
(***************************************************************************)
\* How many instances of WithLogging(W) React creates, and how many times it
\* calls render on one instance.
MaxInstances == 2
MaxRenders == 2

\* The components that may be wrapped: an anonymous one, a named one, a
\* named one with an empty displayName, and a named one that also carries a
\* displayName.
Components ==
    { [id |-> "WrappedComponent", displayName |-> Undefined, name |-> Str("")],
      [id |-> "WrappedComponent", displayName |-> Undefined, name |-> Str("Login")],
      [id |-> "WrappedComponent", displayName |-> Str(""), name |-> Str("Login")],
      [id |-> "WrappedComponent", displayName |-> Str("LoginScreen"), name |-> Str("Login")] }

\* The display names a caller may assign to W after it was wrapped.
AssignedNames == {Str("LoginPage")}

\* The props objects a parent may pass.
EmptyObject == <<>>
PropObjects == {EmptyObject, [id |-> 1], [id |-> 2, title |-> "Holberton"]}

\* a || b: a when it is truthy, b otherwise
Or(a, b) == IF Truthy(a) THEN a ELSE b

\* A mutant: the name is tried before the displayName.
getDisplayNameNameFirst(w) == Or(Or(w.name, w.displayName), Str("Component")).s

\* WrappedComponent.displayName || WrappedComponent.name || 'Component'
getDisplayName(w) == Or(Or(w.displayName, w.name), Str("Component")).s

\* { ...o }: a new object with the own properties of o
Spread(o) == [k \in DOMAIN o |-> o[k]]

\* A mutant: componentDidMount logs the message of componentWillUnmount.
componentDidMountSwapped(w) ==
    "Component " \o getDisplayName(w) \o " is going to unmount"

\* What componentDidMount hands to console.log.
componentDidMount(w) == "Component " \o getDisplayName(w) \o " is mounted"

\* A mutant: componentWillUnmount logs the message of componentDidMount.
componentWillUnmountAsMounted(w) == "Component " \o getDisplayName(w) \o " is mounted"

\* What componentWillUnmount hands to console.log.
componentWillUnmount(w) == "Component " \o getDisplayName(w) \o " is going to unmount"

\* A mutant: <WrappedComponent />, the props not handed on.
renderWithoutProps(w, props) == <<[type |-> w.id, props |-> EmptyObject]>>

\* render(): <WrappedComponent {...this.props} />
render(w, props) == <<[type |-> w.id, props |-> Spread(props)]>>

NotWrapped == [wrapped |-> FALSE]

InitWithLogging ==
    /\ wrapped = NotWrapped
    /\ hoc = NotWrapped
    /\ inst = <<>>
    /\ log = <<>>

\* console.log(text), called by instance i while W is w (by and w are kept
\* for the properties only).
ConsoleLog(i, text) == log' = Append(log, [text |-> text, by |-> i, w |-> wrapped])

\* WithLogging(c): defines the class and sets its displayName (w, what W
\* was at the call, is kept for the properties only).
CallWithLogging(c) ==
    /\ hoc = NotWrapped
    /\ wrapped' = c
    /\ hoc' = [id |-> "WithLogging",
               displayName |-> "WithLogging(" \o getDisplayName(c) \o ")",
               w |-> c]
    /\ UNCHANGED <<inst, log, otherThanWl>>

\* WrappedComponent.displayName = dn, the first time a displayName is given
\* to W by the code that holds it.
AssignDisplayName(dn) ==
    /\ hoc # NotWrapped
    /\ wrapped.displayName = Undefined
    /\ wrapped' = [wrapped EXCEPT !.displayName = dn]
    /\ UNCHANGED <<hoc, inst, log, otherThanWl>>

\* React mounts a new instance with props p: render, then componentDidMount.
Mount(p) ==
    /\ hoc # NotWrapped
    /\ Len(inst) < MaxInstances
    /\ inst' = Append(inst, [phase |-> "mounted", props |-> p,
                             out |-> render(wrapped, p), renders |-> 1])
    /\ ConsoleLog(Len(inst) + 1, componentDidMount(wrapped))
    /\ UNCHANGED <<wrapped, hoc, otherThanWl>>

\* A mutant: the message of componentDidMount is logged on every render.
RerenderLogging(i, p) ==
    /\ inst[i].phase = "mounted"
    /\ inst[i].renders < MaxRenders
    /\ inst' = [inst EXCEPT ![i] = [phase |-> "mounted", props |-> p,
                                    out |-> render(wrapped, p),
                                    renders |-> inst[i].renders + 1]]
    /\ ConsoleLog(i, componentDidMount(wrapped))
    /\ UNCHANGED <<wrapped, hoc, otherThanWl>>

\* React renders mounted instance i again, with props p.
Rerender(i, p) ==
    /\ inst[i].phase = "mounted"
    /\ inst[i].renders < MaxRenders
    /\ inst' = [inst EXCEPT ![i] = [phase |-> "mounted", props |-> p,
                                    out |-> render(wrapped, p),
                                    renders |-> inst[i].renders + 1]]
    /\ UNCHANGED <<wrapped, hoc, log, otherThanWl>>

\* React removes mounted instance i: componentWillUnmount.
Unmount(i) ==
    /\ inst[i].phase = "mounted"
    /\ inst' = [inst EXCEPT ![i].phase = "unmounted"]
    /\ ConsoleLog(i, componentWillUnmount(wrapped))
    /\ UNCHANGED <<wrapped, hoc, otherThanWl>>

NextWithLogging ==
    \/ \E c \in Components : CallWithLogging(c)
    \/ \E dn \in AssignedNames : AssignDisplayName(dn)
    \/ \E p \in PropObjects : Mount(p)
    \/ \E i \in 1..Len(inst), p \in PropObjects : Rerender(i, p)
    \/ \E i \in 1..Len(inst) : Unmount(i)

(***************************************************************************)
(* Reducers: counterReducer, pureReducer and goodReducer.  A state is an   *)
(* object on the heap and is passed and returned by reference, so that a   *)
(* reducer that writes to the object it was given differs from one that    *)
(* allocates a new object.                                                 *)
(***************************************************************************)
\* How many actions are dispatched to the store.
MaxDispatches == 4

\* const initialState = { count: 0 }: the first object of the heap
initialState == 1

\* The reference that stands for undefined: no object of the heap.
UndefinedState == 0

Reducers == {"counterReducer", "pureReducer", "goodReducer"}

\* The actions dispatched: the two the reducers name and two they do not
\* (the second is the one Redux sends when the store is created).
ActionTypes == {"INCREMENT", "DECREMENT", "RESET"}
ReduxInit == "@@redux/INIT"

\* A call's outcome: the heap after it and the reference it returned.
\* { ...state, count: n } allocates a new object with the fields of state
\* and count set to n.
WithCount(h, state, n) ==
    [heap |-> Append(h, [h[state] EXCEPT !.count = n]), ref |-> Len(h) + 1]

\* return state
Same(h, state) == [heap |-> h, ref |-> state]

\* A mutant, badReducer's INCREMENT: state.count += 1; return state
counterReducerMutating(h, state, type) ==
    CASE type = "INCREMENT" ->
            [heap |-> [h EXCEPT ![state].count = @ + 1], ref |-> state]
      [] type = "DECREMENT" -> WithCount(h, state, h[state].count - 1)
      [] OTHER -> Same(h, state)

\* A mutant: an action of another type resets the count.
counterReducerResetting(h, state, type) ==
    CASE type = "INCREMENT" -> WithCount(h, state, h[state].count + 1)
      [] type = "DECREMENT" -> WithCount(h, state, h[state].count - 1)
      [] OTHER -> WithCount(h, state, 0)

counterReducer(h, state, type) ==
    CASE type = "INCREMENT" -> WithCount(h, state, h[state].count + 1)
      [] type = "DECREMENT" -> WithCount(h, state, h[state].count - 1)
      [] OTHER -> Same(h, state)

pureReducer(h, state, type) ==
    CASE type = "INCREMENT" -> WithCount(h, state, h[state].count + 1)
      [] OTHER -> Same(h, state)

goodReducer(h, state, type) ==
    CASE type = "INCREMENT" -> WithCount(h, state, h[state].count + 1)
      [] OTHER -> Same(h, state)

\* reducer(state, action), with state = initialState when state is undefined
Reduce(r, h, state, type) ==
    LET s == IF state = UndefinedState THEN initialState ELSE state
    IN  CASE r = "counterReducer" -> counterReducer(h, s, type)
          [] r = "pureReducer" -> pureReducer(h, s, type)
          [] r = "goodReducer" -> goodReducer(h, s, type)

NoReducer == "none"

InitReducers ==
    /\ heap = <<[count |-> 0]>>
    /\ reducer = NoReducer
    /\ current = UndefinedState
    /\ calls = <<>>

\* What is kept of a call for the properties: the state given, the action,
\* the state returned and the count it held when it was returned.
Call(given, type, res) ==
    [given |-> given, type |-> type, ref |-> res.ref,
     count |-> res.heap[res.ref].count]

\* createStore(r): the store calls r(undefined, { type: '@@redux/INIT' }).
CreateStore(r) ==
    /\ reducer = NoReducer
    /\ LET res == Reduce(r, heap, UndefinedState, ReduxInit)
       IN  /\ heap' = res.heap
           /\ current' = res.ref
           /\ calls' = Append(calls, Call(UndefinedState, ReduxInit, res))
    /\ reducer' = r
    /\ UNCHANGED <<otherThanRd>>

\* store.dispatch({ type }): the store calls reducer(current, action) and
\* keeps what it returns.
Dispatch(type) ==
    /\ reducer # NoReducer
    /\ Len(calls) <= MaxDispatches
    /\ LET res == Reduce(reducer, heap, current, type)
       IN  /\ heap' = res.heap
           /\ current' = res.ref
           /\ calls' = Append(calls, Call(current, type, res))
    /\ UNCHANGED <<reducer, otherThanRd>>

NextReducers ==
    \/ \E r \in Reducers : CreateStore(r)
    \/ \E type \in ActionTypes : Dispatch(type)

(***************************************************************************)
(* Counter: the component whose increment calls setCount(count + 1) and    *)
(* the one whose increment calls setCount(prevCount => prevCount + 1).     *)
(* setCount queues an update; React applies the queued updates, in order,  *)
(* when it renders the component again.                                    *)
(***************************************************************************)
\* How many times increment is called.
MaxIncrements == 5

CounterForms == {"value", "functional"}
NotMounted == "none"

\* A mutant of the value form: it queues the function of the other form.
incrementValueAsFunction(count) == [kind |-> "function"]

\* setCount(count + 1), with the count the render captured
incrementValue(count) == [kind |-> "value", value |-> count + 1]

\* A mutant of the functional form: it queues the captured count plus one.
incrementFunctionalCaptured(count) == [kind |-> "value", value |-> count + 1]

\* setCount(prevCount => prevCount + 1)
incrementFunctional(count) == [kind |-> "function"]

\* A mutant: every queued update adds one, whatever value it carries.
ApplyUpdateCounting(state, update) == state + 1

\* The state after one queued update: the value, or the function applied
\* to the state before it.
ApplyUpdate(state, update) ==
    IF update.kind = "value" THEN update.value ELSE state + 1

\* The state after all the queued updates, first to last.
RECURSIVE ApplyQueue(_, _)
ApplyQueue(state, queue) ==
    IF queue = <<>> THEN state
    ELSE ApplyQueue(ApplyUpdate(state, Head(queue)), Tail(queue))

\* <p>Count: {count}</p>
CountText(count) == "Count: " \o ToString(count)

InitCounter ==
    /\ ctrForm = NotMounted
    /\ ctrCount = 0
    /\ ctrQueue = <<>>
    /\ ctrCaptured = 0
    /\ ctrShown = <<>>
    /\ ctrIncrements = 0
    /\ ctrBatches = <<>>

\* The first render of <Counter />: useState(0).
MountCounter(form) ==
    /\ ctrForm = NotMounted
    /\ ctrForm' = form
    /\ ctrCount' = 0
    /\ ctrCaptured' = 0
    /\ ctrShown' = <<CountText(0)>>
    /\ UNCHANGED <<ctrQueue, ctrIncrements, ctrBatches, otherThanCtr>>

\* A call of the increment of the latest render (a click on the button).
Increment ==
    /\ ctrForm # NotMounted
    /\ ctrIncrements < MaxIncrements
    /\ ctrQueue' = Append(ctrQueue,
                          IF ctrForm = "value" THEN incrementValue(ctrCaptured)
                          ELSE incrementFunctional(ctrCaptured))
    /\ ctrIncrements' = ctrIncrements + 1
    /\ UNCHANGED <<ctrForm, ctrCount, ctrCaptured, ctrShown, ctrBatches,
                   otherThanCtr>>

\* React renders the component again: it applies the queued updates and the
\* render captures and shows the new count.
RerenderCounter ==
    /\ ctrForm # NotMounted
    /\ ctrQueue # <<>>
    /\ ctrCount' = ApplyQueue(ctrCount, ctrQueue)
    /\ ctrQueue' = <<>>
    /\ ctrCaptured' = ctrCount'
    /\ ctrShown' = Append(ctrShown, CountText(ctrCount'))
    /\ ctrBatches' = Append(ctrBatches, Len(ctrQueue))
    /\ UNCHANGED <<ctrForm, ctrIncrements, otherThanCtr>>

NextCounter ==
    \/ \E form \in CounterForms : MountCounter(form)
    \/ Increment
    \/ RerenderCounter

(***************************************************************************)
(* Action creators: addTodoActionCreator and the thunk of fetchTodos.      *)
(* The thunk's promise chain runs one callback at a time; the fetch, the   *)
(* parsing of the body and every dispatch may fail.                        *)
(***************************************************************************)
\* How many times the thunk is run and the action creator called.
MaxFetches == 2
MaxCreated == 4

\* The bodies the server may answer with: two JSON texts and one that is not.
Bodies == {"{\"todos\":[\"Task 1\"]}", "[]", "<html>Bad Gateway</html>"}

\* response.json(): the value of a JSON text, or a SyntaxError.
ParseJson(body) ==
    CASE body = "{\"todos\":[\"Task 1\"]}" ->
            [ok |-> TRUE, value |-> [todos |-> <<"Task 1">>]]
      [] body = "[]" -> [ok |-> TRUE, value |-> <<>>]
      [] OTHER -> [ok |-> FALSE, error |-> "SyntaxError"]

\* { type: 'FETCH_TODOS_REQUEST' }
FetchTodosRequest == [type |-> "FETCH_TODOS_REQUEST"]

\* { type: 'FETCH_TODOS_SUCCESS', payload: data }
FetchTodosSuccess(data) == [type |-> "FETCH_TODOS_SUCCESS", payload |-> data]

\* { type: 'FETCH_TODOS_FAILURE', error }
FetchTodosFailure(error) == [type |-> "FETCH_TODOS_FAILURE", error |-> error]

NoBody == "(no response)"

InitActionCreators ==
    /\ thunks = <<>>
    /\ created = <<>>

\* store.dispatch(fetchTodos()): the thunk dispatches the request action
\* and, unless that dispatch throws, calls fetch('/todos').
CallFetchTodos(throws) ==
    /\ Len(thunks) < MaxFetches
    /\ thunks' = Append(thunks,
          [pc |-> IF throws THEN "threw" ELSE "fetching",
           body |-> NoBody, error |-> "", dispatched |-> <<FetchTodosRequest>>])
    /\ UNCHANGED <<created, otherThanAc>>

\* The promise of fetch resolves with a response.
FetchResolves(i, body) ==
    /\ thunks[i].pc = "fetching"
    /\ thunks' = [thunks EXCEPT ![i].pc = "resolved", ![i].body = body]
    /\ UNCHANGED <<created, otherThanAc>>

\* The promise of fetch rejects.
FetchRejects(i) ==
    /\ thunks[i].pc = "fetching"
    /\ thunks' = [thunks EXCEPT ![i].pc = "failed", ![i].error = "TypeError"]
    /\ UNCHANGED <<created, otherThanAc>>

\* .then(response => response.json())
ThenJson(i) ==
    /\ thunks[i].pc = "resolved"
    /\ thunks' = IF ParseJson(thunks[i].body).ok
                 THEN [thunks EXCEPT ![i].pc = "parsed"]
                 ELSE [thunks EXCEPT ![i].pc = "failed",
                                     ![i].error = ParseJson(thunks[i].body).error]
    /\ UNCHANGED <<created, otherThanAc>>

\* .then(data => dispatch({ type: 'FETCH_TODOS_SUCCESS', payload: data })):
\* a dispatch that throws rejects the promise the catch is chained on.
ThenDispatchSuccess(i, throws) ==
    /\ thunks[i].pc = "parsed"
    /\ thunks' = [thunks EXCEPT
          ![i].dispatched =
              Append(@, FetchTodosSuccess(ParseJson(thunks[i].body).value)),
          ![i].pc = IF throws THEN "failed" ELSE "done",
          ![i].error = IF throws THEN "DispatchError" ELSE @]
    /\ UNCHANGED <<created, otherThanAc>>

\* .catch(error => dispatch({ type: 'FETCH_TODOS_FAILURE', error }))
CatchDispatchFailure(i, throws) ==
    /\ thunks[i].pc = "failed"
    /\ thunks' = [thunks EXCEPT
          ![i].dispatched = Append(@, FetchTodosFailure(thunks[i].error)),
          ![i].pc = IF throws THEN "rejected" ELSE "done"]
    /\ UNCHANGED <<created, otherThanAc>>

\* The texts given to addTodoActionCreator.
TodoTexts == {Str("Learn Redux"), Str("Write tests"), Str(""), Undefined}

\* A mutant: the text is returned under the key text.
addTodoActionCreatorTextKey(text) == [type |-> "ADD_TODO", text |-> text]

\* return { type: 'ADD_TODO', payload: text }
addTodoActionCreator(text) == [type |-> "ADD_TODO", payload |-> text]

\* A call addTodoActionCreator(text).
CallAddTodoActionCreator(text) ==
    /\ Len(created) < MaxCreated
    /\ created' = Append(created, [text |-> text, action |-> addTodoActionCreator(text)])
    /\ UNCHANGED <<thunks, otherThanAc>>

NextFetchTodos ==
    \/ \E throws \in BOOLEAN : CallFetchTodos(throws)
    \/ \E i \in 1..Len(thunks), body \in Bodies : FetchResolves(i, body)
    \/ \E i \in 1..Len(thunks) : FetchRejects(i)
    \/ \E i \in 1..Len(thunks) : ThenJson(i)
    \/ \E i \in 1..Len(thunks), throws \in BOOLEAN : ThenDispatchSuccess(i, throws)
    \/ \E i \in 1..Len(thunks), throws \in BOOLEAN : CatchDispatchFailure(i, throws)

NextAddTodo ==
    \E text \in TodoTexts : CallAddTodoActionCreator(text)

(***************************************************************************)
(* Selectors: getCount, mapStateToProps and getItems, called with the      *)
(* store's state { counter, items }.  counter is the state of the counter  *)
(* reducer above; items is an array that a reducer step replaces.          *)
(***************************************************************************)
\* How many arrays state.items is replaced by.
MaxItemArrays == 1

Selectors == {"getCount", "mapStateToProps", "getItems"}

\* The arrays that state.items may become.
ItemArrays ==
    { <<[id |-> 1, type |-> "todo"]>>,
      <<[id |-> 2, type |-> "done"], [id |-> 1, type |-> "todo"]>> }

\* The objects a selector can reach, and the state it is given.
Memory == [heap |-> heap, arrays |-> arrays]
StateTree == [counter |-> current, items |-> itemsRef]

\* A mutant: the count is read with state.counter.count++.
getCountIncrementing(mem, state) ==
    [mem |-> [mem EXCEPT !.heap[state.counter].count = @ + 1],
     value |-> mem.heap[state.counter].count]

\* const getCount = (state) => state.counter.count
getCount(mem, state) == [mem |-> mem, value |-> mem.heap[state.counter].count]

\* function mapStateToProps(state) { return { count: getCount(state) } }
mapStateToProps(mem, state) ==
    LET res == getCount(mem, state)
    IN  [mem |-> res.mem, value |-> [count |-> res.value]]

\* const getItems = (state) => state.items
getItems(mem, state) == [mem |-> mem, value |-> state.items]

Select(name, mem, state) ==
    CASE name = "getCount" -> getCount(mem, state)
      [] name = "mapStateToProps" -> mapStateToProps(mem, state)
      [] name = "getItems" -> getItems(mem, state)

NoSelect == [selector |-> "none"]

InitSelectors ==
    /\ arrays = << <<>> >>
    /\ itemsRef = 1
    /\ lastSelect = NoSelect

\* A reducer step that replaces state.items by a new array.
ReplaceItems(array) ==
    /\ Len(arrays) <= MaxItemArrays
    /\ arrays' = Append(arrays, array)
    /\ itemsRef' = Len(arrays) + 1
    /\ UNCHANGED <<lastSelect, otherThanSl>>

\* A call of a selector with the store's state.  Kept of it: what it
\* returned, what state.counter.count and state.items were when it was
\* called, and whether every object was afterwards as it was before.
CallSelector(name) ==
    /\ reducer # NoReducer
    /\ LET res == Select(name, Memory, StateTree)
       IN  /\ heap' = res.mem.heap
           /\ arrays' = res.mem.arrays
           /\ lastSelect' = [selector |-> name, value |-> res.value,
                             count |-> heap[current].count, items |-> itemsRef,
                             unchanged |-> res.mem = Memory]
    /\ UNCHANGED <<itemsRef, reducer, current, calls, otherThanRdSl>>

NextSelectors ==
    \/ NextReducers
    \/ \E array \in ItemArrays : ReplaceItems(array)
    \/ \E name \in Selectors : CallSelector(name)

(***************************************************************************)
(* Normalizr: normalize(originalData, article) with the schemas user,      *)
(* comment and article.  normalize visits the input along the schema: an   *)
(* entity's nested values are visited first, then the entity is added to   *)
(* the table of its schema under its id and its id is returned.            *)
(***************************************************************************)
\* How many comments an article has.
MaxComments == 2

\* new schema.Entity(key, definition), the definition's keys in their order
Entity(key, definition) == [kind |-> "entity", key |-> key, definition |-> definition]

\* [schema]: an array of values of one schema
ArrayOf(schema) == [kind |-> "array", of |-> schema]

\* const user = new schema.Entity('users')
user == Entity("users", <<>>)

\* const comment = new schema.Entity('comments', { commenter: user })
comment == Entity("comments", << <<"commenter", user>> >>)

\* A mutant: the article schema without its comments.
articleWithoutComments == Entity("articles", << <<"author", user>> >>)

\* const article = new schema.Entity('articles', { author: user, comments: [comment] })
article == Entity("articles", << <<"author", user>>, <<"comments", ArrayOf(comment)>> >>)

\* The merge of two versions of an entity: { ...a, ...b }
MergeEntity(a, b) ==
    [k \in DOMAIN a \cup DOMAIN b |-> IF k \in DOMAIN b THEN b[k] ELSE a[k]]

\* entities[key][id] = processed, merged with the entity already there
AddEntity(entities, key, id, processed) ==
    IF key \notin DOMAIN entities
    THEN (key :> (id :> processed)) @@ entities
    ELSE [entities EXCEPT ![key] =
            IF id \in DOMAIN @
            THEN [@ EXCEPT ![id] = MergeEntity(@, processed)]
            ELSE (id :> processed) @@ @]

RECURSIVE Visit(_, _, _), VisitFields(_, _, _), VisitArray(_, _, _)

\* The value with its entities replaced by their ids, and the tables with
\* those entities added.
Visit(input, schema, entities) ==
    IF schema.kind = "entity"
    THEN LET r == VisitFields(input, schema.definition, entities)
         IN  [value |-> r.value.id,
              entities |-> AddEntity(r.entities, schema.key, r.value.id, r.value)]
    ELSE VisitArray(input, schema.of, entities)

\* The entity with each field of the definition it has visited, in order.
VisitFields(input, definition, entities) ==
    IF definition = <<>> THEN [value |-> input, entities |-> entities]
    ELSE LET field == Head(definition)[1]
             schema == Head(definition)[2]
         IN  IF field \notin DOMAIN input
             THEN VisitFields(input, Tail(definition), entities)
             ELSE LET r == Visit(input[field], schema, entities)
                  IN  VisitFields([input EXCEPT ![field] = r.value],
                                  Tail(definition), r.entities)

\* The array with each element visited, first to last.
VisitArray(input, schema, entities) ==
    IF input = <<>> THEN [value |-> <<>>, entities |-> entities]
    ELSE LET first == Visit(Head(input), schema, entities)
             rest == VisitArray(Tail(input), schema, first.entities)
         IN  [value |-> <<first.value>> \o rest.value, entities |-> rest.entities]

\* normalize(input, schema): { result, entities }
normalize(input, schema) ==
    LET r == Visit(input, schema, <<>>)
    IN  [result |-> r.value, entities |-> r.entities]

\* The nested data given to normalize: articles whose author and commenters
\* are among three user objects, two of them with the same id.
UserData ==
    { [id |-> "1", name |-> "Paul"], [id |-> "2", name |-> "Nicole"],
      [id |-> "1", name |-> "Paul M."] }
CommentData == [id : {"324", "325"}, commenter : UserData]
CommentArrays == UNION {[1..n -> CommentData] : n \in 0..MaxComments}
ArticleData ==
    [id : {"123"}, author : UserData, title : {"My Article"}, comments : CommentArrays]

NotNormalized == [called |-> FALSE]

InitNormalizr == normalized = NotNormalized

\* const normalizedData = normalize(originalData, article)
Normalize(originalData) ==
    /\ normalized' = [called |-> TRUE, input |-> originalData,
                      output |-> normalize(originalData, article)]
    /\ UNCHANGED otherThanNz

NextNormalizr ==
    \E originalData \in ArticleData : Normalize(originalData)

(***************************************************************************)
(* Immutable.js List: List(array) and list.push(value).  A List is never   *)
(* modified: push returns a new List.                                      *)
(***************************************************************************)
\* How many List objects are made, and how long a List grows.
MaxLists == 4
MaxLength == 4

\* The arrays given to List( ) and the values pushed.
ListArrays == { <<>>, <<1, 2, 3>> }
ListElements == {3, 4}

\* A mutant: push appends to the list itself and returns it, as Array.push
\* changes its array.
pushInPlace(h, list, value) ==
    [heap |-> [h EXCEPT ![list] = Append(@, value)], list |-> list]

\* list.push(value): a new List with value appended; list stays as it is
push(h, list, value) ==
    [heap |-> Append(h, Append(h[list], value)), list |-> Len(h) + 1]

\* List(array): a new List of the array's elements
List(h, array) == [heap |-> Append(h, array), list |-> Len(h) + 1]

NoPush == [called |-> FALSE]

InitImmutable ==
    /\ lists = <<>>
    /\ lastPush = NoPush

\* const list1 = List([1, 2, 3])
CallList(array) ==
    /\ Len(lists) < MaxLists
    /\ lists' = List(lists, array).heap
    /\ UNCHANGED <<lastPush, otherThanIm>>

\* const list2 = list1.push(4)
CallPush(list, value) ==
    /\ Len(lists) < MaxLists
    /\ Len(lists[list]) < MaxLength
    /\ LET res == push(lists, list, value)
       IN  /\ lists' = res.heap
           /\ lastPush' = [called |-> TRUE, list |-> list, value |-> value,
                           before |-> lists, returned |-> res.list]
    /\ UNCHANGED otherThanIm

NextImmutable ==
    \/ \E array \in ListArrays : CallList(array)
    \/ \E list \in 1..Len(lists), value \in ListElements : CallPush(list, value)

(***************************************************************************)
(* Timer: a class component that counts seconds with setInterval.          *)
(***************************************************************************)
\* How many Timer instances are mounted, and how far one counts.
MaxTimers == 2
MaxSeconds == 3

\* setInterval(callback, 1000): a running interval with a new id, whose
\* callback belongs to instance owner
setInterval(ivs, n, owner) ==
    [intervals |-> ivs \cup {[id |-> n + 1, owner |-> owner]}, id |-> n + 1]

\* clearInterval(id)
clearInterval(ivs, id) == {iv \in ivs : iv.id # id}

\* state = { seconds: 0 }.  setStatesAfterUnmount and
\* secondsAtUnmount record history.
NewTimer ==
    [phase |-> "constructed", seconds |-> 0, interval |-> 0, shown |-> 0,
     setStatesAfterUnmount |-> 0, secondsAtUnmount |-> 0]

\* render: <div>Seconds: {this.state.seconds}</div>
Timer_render(t) == [t EXCEPT !.shown = t.seconds]

\* componentDidMount: this.interval = setInterval(...)
Timer_componentDidMount(t, ivs, n, i) ==
    LET res == setInterval(ivs, n, i)
    IN  [timer |-> [t EXCEPT !.phase = "mounted", !.interval = res.id],
         intervals |-> res.intervals]

\* componentDidUpdate: logs the seconds when they changed
Timer_componentDidUpdate(t, prevState, console) ==
    IF prevState.seconds # t.seconds
    THEN Append(console, "Seconds updated: " \o ToString(t.seconds))
    ELSE console

\* A mutant: componentWillUnmount leaves the interval running.
Timer_componentWillUnmountKeepsInterval(t, ivs) == ivs

\* componentWillUnmount: clearInterval(this.interval)
Timer_componentWillUnmount(t, ivs) == clearInterval(ivs, t.interval)

InitTimer ==
    /\ timers = <<>>
    /\ intervals = {}
    /\ issued = 0
    /\ tmLog = <<>>

\* <Timer /> is mounted: constructor, render, componentDidMount.
MountTimer ==
    /\ Len(timers) < MaxTimers
    /\ LET i == Len(timers) + 1
           res == Timer_componentDidMount(Timer_render(NewTimer), intervals, issued, i)
       IN  /\ timers' = Append(timers, res.timer)
           /\ intervals' = res.intervals
           /\ issued' = issued + 1
    /\ UNCHANGED <<tmLog, otherThanTm>>

\* A running interval fires: this.setState({ seconds: this.state.seconds + 1 }),
\* then render and componentDidUpdate.  On an unmounted instance setState
\* changes nothing.
Tick(iv) ==
    /\ iv \in intervals
    /\ LET t == timers[iv.owner]
       IN  IF t.phase = "mounted"
           THEN /\ t.seconds < MaxSeconds
                /\ LET next == Timer_render([t EXCEPT !.seconds = t.seconds + 1])
                   IN  /\ timers' = [timers EXCEPT ![iv.owner] = next]
                       /\ tmLog' = Timer_componentDidUpdate(next, t, tmLog)
           ELSE /\ t.setStatesAfterUnmount < 1
                /\ timers' = [timers EXCEPT ![iv.owner].setStatesAfterUnmount = @ + 1]
                /\ UNCHANGED tmLog
    /\ UNCHANGED <<intervals, issued, otherThanTm>>

\* <Timer /> is unmounted: componentWillUnmount.
UnmountTimer(i) ==
    /\ timers[i].phase = "mounted"
    /\ intervals' = Timer_componentWillUnmount(timers[i], intervals)
    /\ timers' = [timers EXCEPT ![i].phase = "unmounted",
                                ![i].secondsAtUnmount = timers[i].seconds]
    /\ UNCHANGED <<issued, tmLog, otherThanTm>>

NextTimer ==
    \/ MountTimer
    \/ \E iv \in intervals : Tick(iv)
    \/ \E i \in 1..Len(timers) : UnmountTimer(i)

(***************************************************************************)
(* Counter with useEffect: the effect sets document.title after a render   *)
(* whose [count] differs from the one before.  React runs a waiting effect *)
(* after the render is committed, and before the next render at the        *)
(* latest.                                                                 *)
(***************************************************************************)
\* How many times increment is called.
MaxEffectIncrements == 7

\* document.title before the component sets it.
PageTitle == "React App"

\* document.title = `Count: ${count}`, with the count the render captured
effect(count) == "Count: " \o ToString(count)

\* A mutant: the effect has no dependencies, so it runs after the first
\* render only.
depsEmpty(count) == <<>>

\* [count]
deps(count) == <<count>>

NoEffect == [pending |-> FALSE]

InitEffectCounter ==
    /\ efMounted = FALSE
    /\ efCount = 0
    /\ efQueue = <<>>
    /\ efDeps = <<>>
    /\ efPending = NoEffect
    /\ efTitle = PageTitle
    /\ efIncrements = 0

\* The first render of <Counter />: useState(0); the effect waits to run.
MountEffectCounter ==
    /\ ~efMounted
    /\ efMounted' = TRUE
    /\ efCount' = 0
    /\ efDeps' = deps(0)
    /\ efPending' = [pending |-> TRUE, count |-> 0]
    /\ UNCHANGED <<efQueue, efTitle, efIncrements, otherThanEf>>

\* increment: setCount(prevCount => prevCount + 1)
EffectIncrement ==
    /\ efMounted
    /\ efIncrements < MaxEffectIncrements
    /\ efQueue' = Append(efQueue, incrementFunctional(efCount))
    /\ efIncrements' = efIncrements + 1
    /\ UNCHANGED <<efMounted, efCount, efDeps, efPending, efTitle, otherThanEf>>

\* React renders the component again: a waiting effect runs first, the
\* queued updates are applied, and the effect waits to run again if [count]
\* changed.
RerenderEffectCounter ==
    /\ efMounted
    /\ efQueue # <<>>
    /\ LET count == ApplyQueue(efCount, efQueue)
       IN  /\ efTitle' = IF efPending.pending THEN effect(efPending.count)
                         ELSE efTitle
           /\ efCount' = count
           /\ efQueue' = <<>>
           /\ efDeps' = deps(count)
           /\ efPending' = IF deps(count) # efDeps
                           THEN [pending |-> TRUE, count |-> count]
                           ELSE NoEffect
    /\ UNCHANGED <<efMounted, efIncrements, otherThanEf>>

\* The waiting effect runs.
RunEffect ==
    /\ efPending.pending
    /\ efTitle' = effect(efPending.count)
    /\ efPending' = NoEffect
    /\ UNCHANGED <<efMounted, efCount, efQueue, efDeps, efIncrements, otherThanEf>>

NextEffectCounter ==
    \/ MountEffectCounter
    \/ EffectIncrement
    \/ RerenderEffectCounter
    \/ RunEffect

(***************************************************************************)
(* ControlledInput: an input whose value is the component's state.         *)
(***************************************************************************)
\* How many change events there are.
MaxChanges == 3

\* The texts of the input at a change event.
InputTexts == {"", "a", "ab", "abc"}

\* A change event of the input with text t
ChangeEvent(t) == [target |-> [value |-> t]]

\* A mutant: handleChange clears the value.
handleChangeClearing(e) == [kind |-> "value", value |-> ""]

\* handleChange: setValue(e.target.value)
handleChange(e) == [kind |-> "value", value |-> e.target.value]

\* <input type="text" value={value} onChange={handleChange} />
\* <p>You typed: {value}</p>
ControlledInput_render(value) ==
    [input |-> [type |-> "text", value |-> value],
     p |-> "You typed: " \o value]

NothingRendered == [input |-> [type |-> "none"]]

InitControlledInput ==
    /\ ciMounted = FALSE
    /\ ciValue = ""
    /\ ciQueue = <<>>
    /\ ciOut = NothingRendered
    /\ ciEvents = <<>>

\* The first render of <ControlledInput />: useState('').
MountControlledInput ==
    /\ ~ciMounted
    /\ ciMounted' = TRUE
    /\ ciValue' = ""
    /\ ciOut' = ControlledInput_render("")
    /\ UNCHANGED <<ciQueue, ciEvents, otherThanCi>>

\* The input fires a change event with text t: onChange calls handleChange.
Change(t) ==
    /\ ciMounted
    /\ Len(ciEvents) < MaxChanges
    /\ ciQueue' = Append(ciQueue, handleChange(ChangeEvent(t)))
    /\ ciEvents' = Append(ciEvents, t)
    /\ UNCHANGED <<ciMounted, ciValue, ciOut, otherThanCi>>

\* React renders the component again with the queued updates applied.
RerenderControlledInput ==
    /\ ciMounted
    /\ ciQueue # <<>>
    /\ ciValue' = ApplyQueue(ciValue, ciQueue)
    /\ ciQueue' = <<>>
    /\ ciOut' = ControlledInput_render(ciValue')
    /\ UNCHANGED <<ciMounted, ciEvents, otherThanCi>>

NextControlledInput ==
    \/ MountControlledInput
    \/ \E t \in InputTexts : Change(t)
    \/ RerenderControlledInput

(***************************************************************************)
(* LifecycleDemo: a class component that logs its lifecycle.  React calls  *)
(* constructor, getDerivedStateFromProps, render and componentDidMount to  *)
(* mount it; getDerivedStateFromProps, shouldComponentUpdate, render,      *)
(* getSnapshotBeforeUpdate and componentDidUpdate to update it; and        *)
(* componentWillUnmount to unmount it.                                     *)
(***************************************************************************)
\* How many LifecycleDemo instances are mounted, and how many updates they
\* have in all.
MaxDemos == 2
MaxUpdates == 3

\* The props a parent passes to LifecycleDemo.
DemoProps == {EmptyObject, [id |-> 1]}

\* constructor: super(props); this.state = { count: 0 }
LifecycleDemo_constructor(props) ==
    [phase |-> "constructed", props |-> props, state |-> [count |-> 0],
     out |-> "", updates |-> 0]

\* static getDerivedStateFromProps: return null
LifecycleDemo_getDerivedStateFromProps(props, state) == Null

\* The state after getDerivedStateFromProps: unchanged when it returned null.
DerivedState(state, derived) ==
    IF derived = Null THEN state
    ELSE [k \in DOMAIN state \cup DOMAIN derived |->
            IF k \in DOMAIN derived THEN derived[k] ELSE state[k]]

\* componentDidMount: console.log('Component did mount')
LifecycleDemo_componentDidMount(console, i) ==
    Append(console, [text |-> "Component did mount", by |-> i])

\* shouldComponentUpdate: return true
LifecycleDemo_shouldComponentUpdate(nextProps, nextState) == TRUE

\* getSnapshotBeforeUpdate: return null
LifecycleDemo_getSnapshotBeforeUpdate(prevProps, prevState) == Null

\* A mutant: componentDidUpdate logs the message of componentDidMount.
LifecycleDemo_componentDidUpdateAsMount(console, i) ==
    Append(console, [text |-> "Component did mount", by |-> i])

\* componentDidUpdate: console.log('Component did update')
LifecycleDemo_componentDidUpdate(console, i) ==
    Append(console, [text |-> "Component did update", by |-> i])

\* componentWillUnmount: console.log('Component will unmount')
LifecycleDemo_componentWillUnmount(console, i) ==
    Append(console, [text |-> "Component will unmount", by |-> i])

\* render: <div>Count: {this.state.count}</div>
LifecycleDemo_render(d) ==
    [d EXCEPT !.out = "Count: " \o ToString(d.state.count)]

InitLifecycleDemo ==
    /\ demos = <<>>
    /\ ldLog = <<>>
    /\ ldUpdates = 0

\* <LifecycleDemo {...props} /> is mounted.
MountLifecycleDemo(props) ==
    /\ Len(demos) < MaxDemos
    /\ LET i == Len(demos) + 1
           made == LifecycleDemo_constructor(props)
           derived == [made EXCEPT !.state =
                          DerivedState(made.state,
                              LifecycleDemo_getDerivedStateFromProps(props, made.state))]
       IN  /\ demos' = Append(demos, [LifecycleDemo_render(derived)
                                         EXCEPT !.phase = "mounted"])
           /\ ldLog' = LifecycleDemo_componentDidMount(ldLog, i)
    /\ UNCHANGED <<ldUpdates, otherThanLd>>

\* The parent renders instance i again with props.
UpdateLifecycleDemo(i, props) ==
    /\ demos[i].phase = "mounted"
    /\ ldUpdates < MaxUpdates
    /\ ldUpdates' = ldUpdates + 1
    /\ LET d == demos[i]
           nextState == DerivedState(d.state,
                            LifecycleDemo_getDerivedStateFromProps(props, d.state))
           next == [d EXCEPT !.props = props, !.state = nextState,
                             !.updates = d.updates + 1]
       IN  IF LifecycleDemo_shouldComponentUpdate(props, nextState)
           THEN /\ demos' = [demos EXCEPT ![i] = LifecycleDemo_render(next)]
                /\ ldLog' = LifecycleDemo_componentDidUpdate(ldLog, i)
           ELSE /\ demos' = [demos EXCEPT ![i] = next]
                /\ UNCHANGED ldLog
    /\ UNCHANGED otherThanLd

\* Instance i is unmounted.
UnmountLifecycleDemo(i) ==
    /\ demos[i].phase = "mounted"
    /\ ldLog' = LifecycleDemo_componentWillUnmount(ldLog, i)
    /\ demos' = [demos EXCEPT ![i].phase = "unmounted"]
    /\ UNCHANGED <<ldUpdates, otherThanLd>>

NextLifecycleDemo ==
    \/ \E props \in DemoProps : MountLifecycleDemo(props)
    \/ \E i \in 1..Len(demos), props \in DemoProps : UpdateLifecycleDemo(i, props)
    \/ \E i \in 1..Len(demos) : UnmountLifecycleDemo(i)

(***************************************************************************)
(* OptimizedComponent: a class component whose shouldComponentUpdate       *)
(* compares the value prop.                                                *)
(***************************************************************************)
\* How many times the parent renders the component again.
MaxPropUpdates == 3

\* The props a parent passes: a value, and another prop the component does
\* not read.
OptimizedValues == {Str("a"), Str("1"), Num(1), Undefined}
OptimizedProps == [value : OptimizedValues, id : {1, 2}]

\* a !== b, for strings, numbers and undefined
StrictNotEqual(a, b) == a # b

\* The text React renders for the child {v}: a string as it is, a number in
\* decimal, nothing for undefined and null.
ChildText(v) ==
    CASE v.t = "string" -> v.s
      [] v.t = "number" -> ToString(v.n)
      [] OTHER -> ""

\* A mutant: shouldComponentUpdate compares the prop the render does not
\* show.
OptimizedComponent_shouldComponentUpdateById(props, nextProps) ==
    nextProps.id # props.id

\* shouldComponentUpdate: return nextProps.value !== this.props.value
OptimizedComponent_shouldComponentUpdate(props, nextProps) ==
    StrictNotEqual(nextProps.value, props.value)

\* render: <div>{this.props.value}</div>
OptimizedComponent_render(props) == ChildText(props.value)

NoUpdate == [updated |-> FALSE]

InitOptimizedComponent ==
    /\ ocMounted = FALSE
    /\ ocProps = EmptyObject
    /\ ocOut = ""
    /\ ocRenders = 0
    /\ ocLast = NoUpdate

\* <OptimizedComponent {...props} /> is mounted.
MountOptimizedComponent(props) ==
    /\ ~ocMounted
    /\ ocMounted' = TRUE
    /\ ocProps' = props
    /\ ocOut' = OptimizedComponent_render(props)
    /\ ocRenders' = 1
    /\ UNCHANGED <<ocLast, otherThanOc>>

\* The parent renders the component again with nextProps: React asks
\* shouldComponentUpdate, sets this.props, and calls render unless the
\* answer was false.
UpdateOptimizedComponent(nextProps) ==
    /\ ocMounted
    /\ ocRenders + (IF ocLast.updated THEN ocLast.skips ELSE 0) <= MaxPropUpdates
    /\ LET should == OptimizedComponent_shouldComponentUpdate(ocProps, nextProps)
       IN  /\ ocProps' = nextProps
           /\ ocOut' = IF should THEN OptimizedComponent_render(nextProps) ELSE ocOut
           /\ ocRenders' = IF should THEN ocRenders + 1 ELSE ocRenders
           /\ ocLast' = [updated |-> TRUE, prev |-> ocProps, next |-> nextProps,
                         skipped |-> ~should,
                         skips |-> (IF ocLast.updated THEN ocLast.skips ELSE 0)
                                     + (IF should THEN 0 ELSE 1)]
    /\ UNCHANGED <<ocMounted, otherThanOc>>

NextOptimizedComponent ==
    \/ \E props \in OptimizedProps : MountOptimizedComponent(props)
    \/ \E nextProps \in OptimizedProps : UpdateOptimizedComponent(nextProps)

(***************************************************************************)
(* getVisibleItems: the selector createSelector makes of getItems, the     *)
(* filter argument and the filtering function.  It remembers its latest    *)
(* arguments, the latest results of its input selectors and the latest     *)
(* result; it returns that result again when the arguments, or else the    *)
(* results of the input selectors, are the same references as before.      *)
(* The store's state is never written to: a reducer step makes a new state *)
(* object, with a new items array or with the items array of the old one.  *)
(***************************************************************************)
\* How many state objects the reducer steps make, and how many times the
\* selector is called.
MaxStates == 2
MaxVisibleCalls == 3

Filters == {"todo", "done"}

\* The arrays that state.items may become.
VisibleItemArrays ==
    { <<[id |-> 1, type |-> "todo"]>>,
      <<[id |-> 3, type |-> "todo"], [id |-> 2, type |-> "done"],
        [id |-> 1, type |-> "todo"]>> }

\* items.filter(item => item.type === filter)
VisibleItems(items, filter) == SelectSeq(items, LAMBDA item : item.type = filter)

\* A mutant: only the first of the values is compared with the one
\* remembered.
SameReferencesFirstOnly(last, next) == last[1] = next[1]

\* Each value is the very one remembered (===).
SameReferences(last, next) == last = next

EmptyCache == [filled |-> FALSE]

\* getVisibleItems(state, filter): what the selector remembers afterwards,
\* what it returns, and whether it ran the filtering function.
getVisibleItems(cache, itemArrays, states, state, filter) ==
    LET arguments == <<state, filter>>
        inputs == <<states[state].items, filter>>
        result == VisibleItems(itemArrays[inputs[1]], inputs[2])
    IN  IF cache.filled /\ SameReferences(cache.arguments, arguments)
        THEN [cache |-> cache, value |-> cache.result, recomputed |-> FALSE]
        ELSE IF cache.filled /\ SameReferences(cache.inputs, inputs)
        THEN [cache |-> [cache EXCEPT !.arguments = arguments],
              value |-> cache.result, recomputed |-> FALSE]
        ELSE [cache |-> [filled |-> TRUE, arguments |-> arguments,
                         inputs |-> inputs, result |-> result],
              value |-> result, recomputed |-> TRUE]

NoVisibleCall == [called |-> FALSE]

InitVisibleItems ==
    /\ vsArrays = << <<>> >>
    /\ vsStates = << [items |-> 1] >>
    /\ vsState = 1
    /\ vsCache = EmptyCache
    /\ vsLast = NoVisibleCall
    /\ vsCalls = 0

\* A reducer step returns { ...state, items: array }.
ReplaceVisibleItems(array) ==
    /\ Len(vsStates) <= MaxStates
    /\ vsArrays' = Append(vsArrays, array)
    /\ vsStates' = Append(vsStates, [items |-> Len(vsArrays) + 1])
    /\ vsState' = Len(vsStates) + 1
    /\ UNCHANGED <<vsCache, vsLast, vsCalls, otherThanVs>>

\* A reducer step returns a new state with the items of the old one.
KeepVisibleItems ==
    /\ Len(vsStates) <= MaxStates
    /\ vsStates' = Append(vsStates, [items |-> vsStates[vsState].items])
    /\ vsState' = Len(vsStates) + 1
    /\ UNCHANGED <<vsArrays, vsCache, vsLast, vsCalls, otherThanVs>>

\* A call getVisibleItems(state, filter) with the store's state.
CallGetVisibleItems(filter) ==
    /\ vsCalls < MaxVisibleCalls
    /\ LET res == getVisibleItems(vsCache, vsArrays, vsStates, vsState, filter)
       IN  /\ vsCache' = res.cache
           /\ vsLast' = [called |-> TRUE, state |-> vsState, filter |-> filter,
                         value |-> res.value, recomputed |-> res.recomputed]
    /\ vsCalls' = vsCalls + 1
    /\ UNCHANGED <<vsArrays, vsStates, vsState, otherThanVs>>

NextVisibleItems ==
    \/ \E array \in VisibleItemArrays : ReplaceVisibleItems(array)
    \/ KeepVisibleItems
    \/ \E filter \in Filters : CallGetVisibleItems(filter)

(***************************************************************************)
(* articleReducer: a reducer that spreads the entity tables of a           *)
(* normalized article over its state.                                      *)
(***************************************************************************)
\* How many actions are dispatched to the store of articleReducer.
MaxArticleActions == 3

\* const article = new schema.Entity('articles', { author: user })
articleWithAuthor == Entity("articles", << <<"author", user>> >>)

\* The payloads of RECEIVE_ARTICLE: articles with and without an author.
ArticlePayloads ==
    [id : {"123", "124"}, title : {"My Article"}, author : UserData]
      \cup [id : {"123", "124"}, title : {"My Article"}]

\* The actions dispatched: RECEIVE_ARTICLE and one the reducer does not name.
ArticleActions ==
    [type : {"RECEIVE_ARTICLE"}, payload : ArticlePayloads]
      \cup {[type |-> "DELETE_ARTICLE", payload |-> "123"]}

\* A mutant: the tables of the payload are merged into the tables of the
\* state, entity by entity.
articleReducerDeepMerge(h, state, action) ==
    LET given == IF state = UndefinedState THEN Len(h) + 1 ELSE state
        h1 == IF state = UndefinedState THEN Append(h, <<>>) ELSE h
    IN  CASE action.type = "RECEIVE_ARTICLE" ->
                LET entities == normalize(action.payload, articleWithAuthor).entities
                    merged == [k \in DOMAIN h1[given] \cup DOMAIN entities |->
                                  IF k \notin DOMAIN entities THEN h1[given][k]
                                  ELSE IF k \notin DOMAIN h1[given] THEN entities[k]
                                  ELSE MergeEntity(h1[given][k], entities[k])]
                IN  [heap |-> Append(h1, merged), ref |-> Len(h1) + 1]
          [] OTHER -> [heap |-> h1, ref |-> given]

\* articleReducer(state = {}, action): { ...state, ...entities } for
\* RECEIVE_ARTICLE, state itself for any other action
articleReducer(h, state, action) ==
    LET given == IF state = UndefinedState THEN Len(h) + 1 ELSE state
        h1 == IF state = UndefinedState THEN Append(h, <<>>) ELSE h
    IN  CASE action.type = "RECEIVE_ARTICLE" ->
                LET entities == normalize(action.payload, articleWithAuthor).entities
                IN  [heap |-> Append(h1, MergeEntity(h1[given], entities)),
                     ref |-> Len(h1) + 1]
          [] OTHER -> [heap |-> h1, ref |-> given]

NoArticleCall == [called |-> FALSE]

InitArticleReducer ==
    /\ arHeap = <<>>
    /\ arCurrent = UndefinedState
    /\ arLast = NoArticleCall
    /\ arCount = 0

\* store.dispatch(action): the store calls articleReducer(current, action)
\* and keeps what it returns.  Kept of the call: the state given and what it
\* held, the action, and the state returned.
DispatchArticle(action) ==
    /\ arCount < MaxArticleActions
    /\ LET res == articleReducer(arHeap, arCurrent, action)
       IN  /\ arHeap' = res.heap
           /\ arCurrent' = res.ref
           /\ arLast' = [called |-> TRUE, given |-> arCurrent, action |-> action,
                         before |-> IF arCurrent = UndefinedState THEN <<>>
                                    ELSE arHeap[arCurrent],
                         ref |-> res.ref]
    /\ arCount' = arCount + 1
    /\ UNCHANGED otherThanAr

NextArticleReducer ==
    \E action \in ArticleActions : DispatchArticle(action)

(***************************************************************************)
(* MyForm: a form of two controlled inputs whose values are the fields of  *)
(* one state object.  React handles one event at a time and applies the    *)
(* updates an event's handler queued before the next event is handled.     *)
(***************************************************************************)
\* How many events the form receives.
MaxFormEvents == 3

\* The inputs of the form and the texts typed into them.
FieldNames == {"name", "email"}
FieldValues == {"", "Ada", "ada@example.com"}

\* The change event of the input named name with text value
FieldChangeEvent(name, value) == [target |-> [name |-> name, value |-> value]]

\* A mutant: handleChange spreads the initial formData instead of the
\* current one.
MyForm_handleChangeFromInitial(formData, e) ==
    [kind |-> "value",
     value |-> (e.target.name :> e.target.value) @@ [name |-> "", email |-> ""]]

\* handleChange: setFormData({ ...formData, [name]: value })
MyForm_handleChange(formData, e) ==
    [kind |-> "value",
     value |-> (e.target.name :> e.target.value) @@ formData]

\* handleSubmit: e.preventDefault(); console.log('Form submitted:', formData)
MyForm_handleSubmit(formData, console) ==
    Append(console, <<"Form submitted:", formData>>)

\* The two inputs of the form, each with its field of formData as value
MyForm_render(formData) ==
    [name |-> [type |-> "text", value |-> formData.name],
     email |-> [type |-> "email", value |-> formData.email]]

NoFormEvent == [kind |-> "none"]

\* How many change events there have been.
FormChanges == IF mfLast.kind = "none" THEN 0 ELSE mfLast.changes

InitMyForm ==
    /\ mfMounted = FALSE
    /\ mfFormData = [name |-> "", email |-> ""]
    /\ mfCaptured = [name |-> "", email |-> ""]
    /\ mfQueue = <<>>
    /\ mfOut = NothingRendered
    /\ mfLog = <<>>
    /\ mfLast = NoFormEvent

\* The first render of <MyForm />: useState({ name: '', email: '' }).
MountMyForm ==
    /\ ~mfMounted
    /\ mfMounted' = TRUE
    /\ mfOut' = MyForm_render(mfFormData)
    /\ UNCHANGED <<mfFormData, mfCaptured, mfQueue, mfLog, mfLast, otherThanMf>>

\* The input named name fires a change event with text value: onChange calls
\* the handleChange of the latest render.
ChangeField(name, value) ==
    /\ mfMounted
    /\ mfQueue = <<>>
    /\ Len(mfLog) + FormChanges < MaxFormEvents
    /\ mfQueue' = <<MyForm_handleChange(mfCaptured, FieldChangeEvent(name, value))>>
    /\ mfLast' = [kind |-> "change", name |-> name, value |-> value,
                  before |-> mfFormData,
                  changes |-> FormChanges + 1]
    /\ UNCHANGED <<mfMounted, mfFormData, mfCaptured, mfOut, mfLog, otherThanMf>>

\* React renders the form again with the queued update applied.
RerenderMyForm ==
    /\ mfMounted
    /\ mfQueue # <<>>
    /\ mfFormData' = ApplyQueue(mfFormData, mfQueue)
    /\ mfCaptured' = mfFormData'
    /\ mfQueue' = <<>>
    /\ mfOut' = MyForm_render(mfFormData')
    /\ UNCHANGED <<mfMounted, mfLog, mfLast, otherThanMf>>

\* The form is submitted: onSubmit calls the handleSubmit of the latest
\* render.
SubmitMyForm ==
    /\ mfMounted
    /\ mfQueue = <<>>
    /\ Len(mfLog) + FormChanges < MaxFormEvents
    /\ mfLog' = MyForm_handleSubmit(mfCaptured, mfLog)
    /\ mfLast' = [kind |-> "submit", before |-> mfFormData,
                  changes |-> FormChanges]
    /\ UNCHANGED <<mfMounted, mfFormData, mfCaptured, mfQueue, mfOut, otherThanMf>>

NextMyForm ==
    \/ MountMyForm
    \/ \E name \in FieldNames, value \in FieldValues : ChangeField(name, value)
    \/ RerenderMyForm
    \/ SubmitMyForm

(***************************************************************************)
(* useWindowWidth: a hook whose effect adds a resize listener to window    *)
(* and whose cleanup removes it.  The effect has no dependencies, so it    *)
(* runs for the first render only.  React runs an effect after the render  *)
(* is committed, and the cleanup of an unmounted component after the       *)
(* unmount is committed; a waiting effect runs before the next commit at   *)
(* the latest.                                                             *)
(***************************************************************************)
\* How many components using the hook are mounted, and how many resize
\* events there are.
MaxComponents == 2
MaxResizes == 2

\* The widths of the window.
Widths == {768, 1024}

\* window.addEventListener('resize', handleResize), handleResize being the
\* function with this id made by the effect of component owner
addEventListener(listeners, id, owner) == listeners \cup {[id |-> id, owner |-> owner]}

\* A mutant: removeEventListener is given another function than the one
\* added, and removes nothing.
removeEventListenerOfOther(listeners, id) == listeners

\* window.removeEventListener('resize', handleResize)
removeEventListener(listeners, id) == {l \in listeners : l.id # id}

\* The component after its first render: useState(window.innerWidth), and
\* the effect waiting to run.  registered, setWidthsBeforeCleanup and
\* setWidthsAfterCleanup record history: how many listeners the component
\* has added, and how many times a listener of it called setWidth after
\* the unmount, before and after its cleanup ran.
NewComponent(innerWidth) ==
    [phase |-> "mounted", width |-> innerWidth, effect |-> "waiting",
     handleResize |-> 0, registered |-> 0,
     setWidthsBeforeCleanup |-> 0, setWidthsAfterCleanup |-> 0]

\* The effect: const handleResize = ...; window.addEventListener(...)
useWindowWidth_effect(c, listeners, made, i) ==
    [comp |-> [c EXCEPT !.effect = "ran", !.handleResize = made + 1,
                        !.registered = @ + 1],
     listeners |-> addEventListener(listeners, made + 1, i)]

\* The cleanup: () => window.removeEventListener('resize', handleResize)
useWindowWidth_cleanup(c, listeners) ==
    [comp |-> [c EXCEPT !.effect = "cleaned"],
     listeners |-> removeEventListener(listeners, c.handleResize)]

\* handleResize: setWidth(window.innerWidth).  On an unmounted component
\* setWidth changes nothing.
handleResize(c, innerWidth) ==
    IF c.phase = "mounted" THEN [c EXCEPT !.width = innerWidth]
    ELSE IF c.effect = "cleaned" THEN [c EXCEPT !.setWidthsAfterCleanup = @ + 1]
    ELSE [c EXCEPT !.setWidthsBeforeCleanup = @ + 1]

InitWindowWidth ==
    /\ wwComps = <<>>
    /\ wwListeners = {}
    /\ wwIssued = 0
    /\ wwInnerWidth = 1024
    /\ wwResizes = 0

\* <MyComponent /> is mounted: its first render is committed.
MountMyComponent ==
    /\ Len(wwComps) < MaxComponents
    /\ wwComps' = Append(wwComps, NewComponent(wwInnerWidth))
    /\ UNCHANGED <<wwListeners, wwIssued, wwInnerWidth, wwResizes, otherThanWw>>

\* The waiting effect of component i runs.
RunWindowWidthEffect(i) ==
    /\ wwComps[i].phase = "mounted"
    /\ wwComps[i].effect = "waiting"
    /\ LET res == useWindowWidth_effect(wwComps[i], wwListeners, wwIssued, i)
       IN  /\ wwComps' = [wwComps EXCEPT ![i] = res.comp]
           /\ wwListeners' = res.listeners
    /\ wwIssued' = wwIssued + 1
    /\ UNCHANGED <<wwInnerWidth, wwResizes, otherThanWw>>

\* The window is resized to width: every listener is called, and the
\* components whose width changed render again.
ResizeWindow(width) ==
    /\ wwResizes < MaxResizes
    /\ width # wwInnerWidth
    /\ wwInnerWidth' = width
    /\ wwComps' = [i \in 1..Len(wwComps) |->
                      IF \E l \in wwListeners : l.owner = i
                      THEN handleResize(wwComps[i], width) ELSE wwComps[i]]
    /\ wwResizes' = wwResizes + 1
    /\ UNCHANGED <<wwListeners, wwIssued, otherThanWw>>

\* Component i is unmounted: an effect still waiting runs first, and the
\* cleanup waits to run.
UnmountMyComponent(i) ==
    /\ wwComps[i].phase = "mounted"
    /\ LET res == IF wwComps[i].effect = "waiting"
                  THEN useWindowWidth_effect(wwComps[i], wwListeners, wwIssued, i)
                  ELSE [comp |-> wwComps[i], listeners |-> wwListeners]
       IN  /\ wwComps' = [wwComps EXCEPT ![i] =
                             [res.comp EXCEPT !.phase = "unmounted",
                                              !.effect = "cleanup waiting"]]
           /\ wwListeners' = res.listeners
           /\ wwIssued' = IF wwComps[i].effect = "waiting" THEN wwIssued + 1
                          ELSE wwIssued
    /\ UNCHANGED <<wwInnerWidth, wwResizes, otherThanWw>>

\* The waiting cleanup of component i runs.
RunWindowWidthCleanup(i) ==
    /\ wwComps[i].effect = "cleanup waiting"
    /\ LET res == useWindowWidth_cleanup(wwComps[i], wwListeners)
       IN  /\ wwComps' = [wwComps EXCEPT ![i] = res.comp]
           /\ wwListeners' = res.listeners
    /\ UNCHANGED <<wwIssued, wwInnerWidth, wwResizes, otherThanWw>>

NextWindowWidth ==
    \/ MountMyComponent
    \/ \E i \in 1..Len(wwComps) : RunWindowWidthEffect(i)
    \/ \E width \in Widths : ResizeWindow(width)
    \/ \E i \in 1..Len(wwComps) : UnmountMyComponent(i)
    \/ \E i \in 1..Len(wwComps) : RunWindowWidthCleanup(i)

(***************************************************************************)
(* Specifications                                                          *)
(***************************************************************************)
Init ==
    /\ InitNotificationItem
    /\ InitWithLogging
    /\ InitReducers
    /\ InitCounter
    /\ InitActionCreators
    /\ InitSelectors
    /\ InitNormalizr
    /\ InitImmutable
    /\ InitTimer
    /\ InitEffectCounter
    /\ InitControlledInput
    /\ InitLifecycleDemo
    /\ InitOptimizedComponent
    /\ InitVisibleItems
    /\ InitArticleReducer
    /\ InitMyForm
    /\ InitWindowWidth

SpecNotificationItem == Init /\ [][NextNotificationItem]_vars
SpecWithLogging == Init /\ [][NextWithLogging]_vars
SpecReducers == Init /\ [][NextReducers]_vars
SpecCounter == Init /\ [][NextCounter]_vars
SpecFetchTodos == Init /\ [][NextFetchTodos]_vars
SpecSelectors == Init /\ [][NextSelectors]_vars
SpecAddTodo == Init /\ [][NextAddTodo]_vars
SpecImmutable == Init /\ [][NextImmutable]_vars
SpecNormalizr == Init /\ [][NextNormalizr]_vars
SpecEffectCounter == Init /\ [][NextEffectCounter]_vars
\* React runs a waiting effect once the render is committed.
SpecEffectCounterFair == SpecEffectCounter /\ WF_vars(RunEffect)
SpecControlledInput == Init /\ [][NextControlledInput]_vars
SpecTimer == Init /\ [][NextTimer]_vars
SpecOptimizedComponent == Init /\ [][NextOptimizedComponent]_vars
SpecLifecycleDemo == Init /\ [][NextLifecycleDemo]_vars
SpecArticleReducer == Init /\ [][NextArticleReducer]_vars
SpecVisibleItems == Init /\ [][NextVisibleItems]_vars
SpecWindowWidth == Init /\ [][NextWindowWidth]_vars
SpecMyForm == Init /\ [][NextMyForm]_vars

(***************************************************************************)
(* C1                                                                      *)
(***************************************************************************)
NiRendered == niOut # NotRendered

\* C1 as stated: for every combination of type, value and html the render
\* puts exactly one list item in the DOM, the value item or the markup item.
C1_OneItemAlways ==
    NiRendered =>
        /\ Len(Rendered(niOut)) = 1
        /\ Rendered(niOut)[1] \in
              {ValueItem(niProps.type, niProps.value), MarkupItem(niProps.html)}

\* How many of the two conditions of the component hold for props p.
NiWanted(p) ==
    (IF Truthy(p.type) /\ Truthy(p.value) THEN 1 ELSE 0)
      + (IF Truthy(p.html) THEN 1 ELSE 0)

\* C1, amended: every list item rendered is the value item built from type
\* and value or the markup item built from html, and there is exactly one
\* list item when exactly one of "type and value are both truthy" and "html
\* is truthy" holds; there are two when both hold and none when neither holds.
C1_OneItemPerCondition ==
    NiRendered =>
        /\ \A i \in 1..Len(Rendered(niOut)) :
              Rendered(niOut)[i] \in
                 {ValueItem(niProps.type, niProps.value), MarkupItem(niProps.html)}
        /\ Len(Rendered(niOut)) = NiWanted(niProps)

\* A truthy type with a falsy value and a truthy html: the one item is the
\* markup item.
C1_Witness ==
    /\ NiRendered
    /\ Truthy(niProps.type) /\ ~Truthy(niProps.value) /\ Truthy(niProps.html)
    /\ Rendered(niOut) = <<MarkupItem(niProps.html)>>

(***************************************************************************)
(* C2, C3, C4                                                              *)
(***************************************************************************)
\* The entries of the console that instance i logged, in order.
LogOf(i) == SelectSeq(log, LAMBDA e : e.by = i)

\* The name of W as the claims state it, for W as it was when e was logged.
NameOfW(w) ==
    IF w.displayName \in {Str("LoginScreen"), Str("LoginPage")} THEN w.displayName.s
    ELSE IF w.name = Str("Login") THEN "Login"
    ELSE "Component"

IsMountedMessage(e) == e.text = "Component " \o NameOfW(e.w) \o " is mounted"
IsUnmountMessage(e) == e.text = "Component " \o NameOfW(e.w) \o " is going to unmount"

\* C2: each instance has logged 'Component <name of W> is mounted' exactly
\* once from its mount on, 'Component <name of W> is going to unmount'
\* exactly once from its unmount on, and nothing else: however many times it
\* was rendered in between, its entries are those one or two messages.
C2_OncePerMountAndUnmount ==
    /\ \A k \in 1..Len(log) : log[k].by \in 1..Len(inst)
    /\ \A i \in 1..Len(inst) :
          /\ inst[i].phase = "mounted" =>
                /\ Len(LogOf(i)) = 1
                /\ IsMountedMessage(LogOf(i)[1])
          /\ inst[i].phase = "unmounted" =>
                /\ Len(LogOf(i)) = 2
                /\ IsMountedMessage(LogOf(i)[1])
                /\ IsUnmountMessage(LogOf(i)[2])

\* An instance that was mounted, rendered again and unmounted.
C2_Witness ==
    \E i \in 1..Len(inst) :
        /\ inst[i].phase = "unmounted"
        /\ inst[i].renders = MaxRenders
        /\ Len(LogOf(i)) = 2

\* C3: in the console, every 'is going to unmount' message of an instance
\* comes after an 'is mounted' message of that instance, and no entry of
\* that instance comes after it.
C3_MountedBeforeUnmountAndSilentAfter ==
    \A k \in 1..Len(log) :
        IsUnmountMessage(log[k]) =>
            /\ \E j \in 1..(k - 1) :
                  log[j].by = log[k].by /\ IsMountedMessage(log[j])
            /\ \A j \in (k + 1)..Len(log) : log[j].by # log[k].by

\* Two instances, the first unmounted while the second is still mounted and
\* logged its mount after the first one's unmount.
C3_Witness ==
    /\ Len(log) = 3
    /\ IsUnmountMessage(log[2]) /\ log[2].by = 1
    /\ IsMountedMessage(log[3]) /\ log[3].by = 2

\* C4: WithLogging(W) is a component other than W, and what each of its
\* instances rendered last is exactly one element, of type W, whose props
\* are the props the instance received at that render: the same keys with
\* the same values.
C4_RendersWrappedWithSameProps ==
    /\ hoc # NotWrapped => hoc.id # wrapped.id
    /\ \A i \in 1..Len(inst) :
          /\ Len(inst[i].out) = 1
          /\ inst[i].out[1].type = wrapped.id
          /\ DOMAIN inst[i].out[1].props = DOMAIN inst[i].props
          /\ \A k \in DOMAIN inst[i].props :
                inst[i].out[1].props[k] = inst[i].props[k]

\* An instance rendered a second time, with two props.
C4_Witness ==
    \E i \in 1..Len(inst) :
        /\ inst[i].phase = "mounted"
        /\ inst[i].renders = 2
        /\ inst[i].props = [id |-> 2, title |-> "Holberton"]
        /\ inst[i].out = <<[type |-> "WrappedComponent",
                            props |-> [id |-> 2, title |-> "Holberton"]]>>

(***************************************************************************)
(* C5, C6                                                                  *)
(***************************************************************************)
\* C5: whichever of counterReducer, pureReducer and goodReducer the store
\* uses, after any sequence of INCREMENT, DECREMENT and unknown actions every
\* state object a call returned still holds the count it held when it was
\* returned (so no later call wrote to the object it was given).
C5_ReturnedStatesKeepTheirCount ==
    \A k \in 1..Len(calls) : heap[calls[k].ref].count = calls[k].count

\* counterReducer after an INCREMENT, a DECREMENT and an unknown action, the
\* state returned by the first being the state given to the second.
C5_Witness ==
    /\ reducer = "counterReducer"
    /\ Len(calls) = 4
    /\ calls[2].type = "INCREMENT" /\ calls[3].type = "DECREMENT"
    /\ calls[4].type = "RESET"
    /\ calls[3].given = calls[2].ref
    /\ heap[calls[2].ref].count = 1 /\ heap[calls[3].ref].count = 0

\* C6 as stated: for every action, including one of unknown type, the state
\* object goodReducer returns is not the state object it was given.
C6_GoodReducerAlwaysReturnsNewObject ==
    reducer = "goodReducer" =>
        \A k \in 1..Len(calls) : calls[k].ref # calls[k].given

(***************************************************************************)
(* C7, C8                                                                  *)
(***************************************************************************)
\* The sum of the numbers of a sequence.
RECURSIVE Sum(_)
Sum(seq) == IF seq = <<>> THEN 0 ELSE Head(seq) + Sum(Tail(seq))

\* C7: in the Counter with setCount(prevCount => prevCount + 1), the count
\* is the number of increment calls whose update a render has applied, so
\* once every queued update is applied the count is exactly the number of
\* increment calls made since the count was 0, however the calls were
\* grouped between renders.
C7_FunctionalCountsEveryIncrement ==
    ctrForm = "functional" =>
        /\ ctrCount = ctrIncrements - Len(ctrQueue)
        /\ ctrCount = Sum(ctrBatches)
        /\ ctrQueue = <<>> => ctrCount = ctrIncrements /\ ctrCaptured = ctrIncrements

\* Three calls, two of them from the same render, all applied.
C7_Witness ==
    /\ ctrForm = "functional"
    /\ ctrBatches = <<1, 2>>
    /\ ctrQueue = <<>>
    /\ ctrCount = 3

\* C8: the Counter with setCount(count + 1) first shows 'Count: 0', and each
\* later render, which follows at least one click, shows a count exactly one
\* higher than the render before it showed (what was shown before the click).
C8_EachRerenderShowsOneMore ==
    ctrForm = "value" =>
        /\ ctrShown[1] = "Count: 0"
        /\ \A k \in 1..Len(ctrShown) : ctrShown[k] = "Count: " \o ToString(k - 1)
        /\ Len(ctrShown) = Len(ctrBatches) + 1
        /\ \A k \in 1..Len(ctrBatches) : ctrBatches[k] >= 1

\* Two clicks, each followed by a render.
C8_Witness ==
    /\ ctrForm = "value"
    /\ ctrBatches = <<1, 1>>
    /\ ctrShown = <<"Count: 0", "Count: 1", "Count: 2">>

(***************************************************************************)
(* C9, C10                                                                 *)
(***************************************************************************)
\* An execution of the thunk has ended: its promise is settled, or the thunk
\* threw.
Settled(t) == t.pc \in {"done", "rejected", "threw"}

\* C9 as stated: an execution whose fetch succeeded (it resolved with a body
\* that parses) has, once it has ended, dispatched exactly two actions,
\* FETCH_TODOS_REQUEST and then FETCH_TODOS_SUCCESS with the parsed body as
\* payload, and so no FETCH_TODOS_FAILURE.
C9_SuccessDispatchesRequestThenSuccess ==
    \A i \in 1..Len(thunks) :
        (Settled(thunks[i]) /\ thunks[i].body # NoBody /\ ParseJson(thunks[i].body).ok) =>
            thunks[i].dispatched =
                << [type |-> "FETCH_TODOS_REQUEST"],
                   [type |-> "FETCH_TODOS_SUCCESS",
                    payload |-> ParseJson(thunks[i].body).value] >>

\* C10: every action addTodoActionCreator returned has the two fields type
\* and payload and no other, type being 'ADD_TODO' and payload the text it
\* was called with, and two calls with the same text returned equal actions.
C10_AddTodoAction ==
    /\ \A k \in 1..Len(created) :
          /\ DOMAIN created[k].action = {"type", "payload"}
          /\ created[k].action.type = "ADD_TODO"
          /\ created[k].action.payload = created[k].text
    /\ \A j, k \in 1..Len(created) :
          created[j].text = created[k].text => created[j].action = created[k].action

\* Two calls with 'Learn Redux' and one with another text in between.
C10_Witness ==
    /\ Len(created) = 3
    /\ created[1].text = Str("Learn Redux")
    /\ created[2].text = Str("")
    /\ created[3].text = Str("Learn Redux")
    /\ created[1].action = [type |-> "ADD_TODO", payload |-> Str("Learn Redux")]

(***************************************************************************)
(* C11                                                                     *)
(***************************************************************************)
\* C11: every call of getCount or getItems (or of mapStateToProps, which
\* calls getCount), wherever it falls between the reducer steps, left every
\* object of the state tree as it was, and getCount returned the
\* state.counter.count, getItems the state.items, of the state it was given.
C11_SelectorsReadOnly ==
    lastSelect # NoSelect =>
        /\ lastSelect.unchanged
        /\ lastSelect.selector = "getCount" => lastSelect.value = lastSelect.count
        /\ lastSelect.selector = "mapStateToProps" =>
              lastSelect.value = [count |-> lastSelect.count]
        /\ lastSelect.selector = "getItems" => lastSelect.value = lastSelect.items

\* getCount was called after two INCREMENTs, returned 2, and a DECREMENT
\* followed it.
C11_Witness ==
    /\ lastSelect # NoSelect
    /\ lastSelect.selector = "getCount"
    /\ lastSelect.value = 2
    /\ Len(calls) = 4
    /\ calls[4].type = "DECREMENT"
    /\ heap[current].count = 1

(***************************************************************************)
(* C12                                                                     *)
(***************************************************************************)
\* The users and the comments nested in article d.
UsersIn(d) == {d.author} \cup {d.comments[k].commenter : k \in 1..Len(d.comments)}
CommentsIn(d) == {d.comments[k] : k \in 1..Len(d.comments)}

\* C12: normalize(originalData, article) returns the article's id as result;
\* entities holds the article once, under its id, with its author and its
\* comments replaced by their ids; every user of the input once, under its
\* id, however many places refer to it; and every comment once, under its
\* id, with its commenter replaced by the commenter's id.
C12_NormalizeFlattens ==
    normalized.called =>
        LET d == normalized.input
            e == normalized.output.entities
        IN  /\ normalized.output.result = d.id
            /\ DOMAIN e = {"articles", "users"}
                            \cup (IF d.comments = <<>> THEN {} ELSE {"comments"})
            /\ DOMAIN e.articles = {d.id}
            /\ e.articles[d.id] =
                  [id |-> d.id, title |-> d.title, author |-> d.author.id,
                   comments |-> [k \in 1..Len(d.comments) |-> d.comments[k].id]]
            /\ DOMAIN e.users = {u.id : u \in UsersIn(d)}
            /\ \A id \in DOMAIN e.users :
                  e.users[id] \in {u \in UsersIn(d) : u.id = id}
            /\ d.comments # <<>> =>
                  /\ DOMAIN e.comments = {c.id : c \in CommentsIn(d)}
                  /\ \A id \in DOMAIN e.comments :
                        e.comments[id] \in
                           {[id |-> c.id, commenter |-> c.commenter.id] :
                               c \in {c \in CommentsIn(d) : c.id = id}}

\* An article whose author also wrote one of its two comments: the user is
\* stored once.
C12_Witness ==
    /\ normalized.called
    /\ Len(normalized.input.comments) = 2
    /\ normalized.input.comments[1].commenter = normalized.input.author
    /\ normalized.input.comments[2].commenter.id # normalized.input.author.id
    /\ normalized.input.comments[1].id # normalized.input.comments[2].id
    /\ Cardinality(DOMAIN normalized.output.entities.users) = 2
    /\ Cardinality(DOMAIN normalized.output.entities.comments) = 2

(***************************************************************************)
(* C13                                                                     *)
(***************************************************************************)
\* C13: l.push(x) returns a List that is not l and whose elements are those
\* l had before the call followed by x, and after the call l, and every
\* other List there was, has the elements it had before.
C13_PushReturnsNewList ==
    lastPush.called =>
        /\ lastPush.returned # lastPush.list
        /\ lastPush.returned \notin 1..Len(lastPush.before)
        /\ lists[lastPush.returned] =
              lastPush.before[lastPush.list] \o <<lastPush.value>>
        /\ \A l \in 1..Len(lastPush.before) : lists[l] = lastPush.before[l]

\* list1 = List([1, 2, 3]), list2 = list1.push(4), and a later push on list1
\* again: list1 is still [1, 2, 3] and list2 still [1, 2, 3, 4].
C13_Witness ==
    /\ lastPush.called
    /\ Len(lists) = 3
    /\ lastPush.list = 1
    /\ lastPush.returned = 3
    /\ lists[1] = <<1, 2, 3>>
    /\ lists[2] = <<1, 2, 3, 4>>
    /\ lists[3] = <<1, 2, 3, 3>>

(***************************************************************************)
(* C14                                                                     *)
(***************************************************************************)
\* C14: a mounted Timer has exactly one running interval, its own; once a
\* Timer is unmounted its interval is no longer running, no tick has called
\* its setState since, and its seconds are what they were at the unmount.
C14_IntervalClearedOnUnmount ==
    \A i \in 1..Len(timers) :
        /\ timers[i].phase = "mounted" =>
              {iv \in intervals : iv.owner = i} =
                  {[id |-> timers[i].interval, owner |-> i]}
        /\ timers[i].phase = "unmounted" =>
              /\ {iv \in intervals : iv.owner = i} = {}
              /\ timers[i].setStatesAfterUnmount = 0
              /\ timers[i].seconds = timers[i].secondsAtUnmount

\* A Timer unmounted after two ticks while another Timer, mounted later,
\* went on ticking.
C14_Witness ==
    /\ Len(timers) = 2
    /\ timers[1].phase = "unmounted"
    /\ timers[1].seconds = 2
    /\ timers[2].phase = "mounted"
    /\ timers[2].seconds = 3
    /\ tmLog[Len(tmLog)] = "Seconds updated: 3"

(***************************************************************************)
(* C15                                                                     *)
(***************************************************************************)
\* C15: every count the Counter with useEffect renders is eventually the
\* count in document.title ('Count: <count>'), and whenever no update is
\* queued and no effect is waiting to run, document.title is
\* 'Count: <count>' for the current count.
C15_TitleFollowsCount ==
    /\ [](efMounted /\ efQueue = <<>> /\ ~efPending.pending
            => efTitle = "Count: " \o ToString(efCount))
    /\ \A c \in 0..MaxEffectIncrements :
          (efMounted /\ efCount = c) ~> (efTitle = "Count: " \o ToString(c))

\* Three increments, the last two applied by one render, and the effect of
\* that render has run.
C15_Witness ==
    /\ efMounted
    /\ efIncrements = 3
    /\ efCount = 3
    /\ efQueue = <<>>
    /\ ~efPending.pending
    /\ efTitle = "Count: 3"

(***************************************************************************)
(* C16                                                                     *)
(***************************************************************************)
\* C16: whenever ControlledInput is rendered, the value of its input is the
\* state value and its paragraph reads 'You typed: ' followed by the state
\* value; and once the update of a change event with text t is applied, the
\* state value is t.
C16_InputShowsState ==
    ciMounted =>
        /\ ciOut.input.value = ciValue
        /\ ciOut.p = "You typed: " \o ciValue
        /\ (ciQueue = <<>> /\ ciEvents # <<>>) => ciValue = ciEvents[Len(ciEvents)]

\* The input was changed to 'a', to 'ab' and back to 'a', each change
\* rendered.
C16_Witness ==
    /\ ciMounted
    /\ ciEvents = <<"a", "ab", "a">>
    /\ ciQueue = <<>>
    /\ ciValue = "a"
    /\ ciOut.p = "You typed: a"

(***************************************************************************)
(* C17                                                                     *)
(***************************************************************************)
\* The lines instance i of LifecycleDemo has logged, in order.
DemoLogOf(i) == SelectSeq(ldLog, LAMBDA e : e.by = i)

\* C17: the first line an instance of LifecycleDemo logs is 'Component did
\* mount' and it logs that line once, so before every 'Component did
\* update'; a mounted instance has not logged 'Component will unmount', and
\* an unmounted one has logged it once, as its last line.
C17_LifecycleOrder ==
    \A i \in 1..Len(demos) :
        LET l == DemoLogOf(i)
            At(text) == {k \in 1..Len(l) : l[k].text = text}
        IN  /\ At("Component did mount") = {1}
            /\ At("Component did update") = 2..(1 + demos[i].updates)
            /\ At("Component will unmount") =
                  IF demos[i].phase = "unmounted" THEN {Len(l)} ELSE {}
            /\ demos[i].phase = "unmounted" => Len(l) = 2 + demos[i].updates

\* An instance mounted, updated twice and unmounted, its lines interleaved
\* with those of a second instance.
C17_Witness ==
    /\ Len(demos) = 2
    /\ demos[1].phase = "unmounted"
    /\ demos[1].updates = 2
    /\ demos[2].phase = "mounted"
    /\ demos[2].updates = 1
    /\ Len(ldLog) = 6
    /\ ldLog[2].by = 2
    /\ ldLog[6] = [text |-> "Component will unmount", by |-> 1]

C19_ExactOutput ==
    NiRendered =>
        Rendered(niOut) =
            (IF Truthy(niProps.type) /\ Truthy(niProps.value)
             THEN <<ValueItem(niProps.type, niProps.value)>> ELSE <<>>)
              \o (IF Truthy(niProps.html) THEN <<MarkupItem(niProps.html)>> ELSE <<>>)

\* A truthy type with the value 0 and no html: the fragment is empty, after
\* a render that had put both items, the value item first.
C19_Witness ==
    /\ NiRendered
    /\ niProps = [type |-> Str("urgent"), value |-> Num(0), html |-> Undefined]
    /\ Rendered(niOut) = <<>>
    /\ niEarlier # NotRendered
    /\ Len(Rendered(niEarlier.out)) = 2
    /\ Rendered(niEarlier.out)[1] =
          ValueItem(niEarlier.props.type, niEarlier.props.value)

Dispatched(type) == Cardinality({k \in 1..Len(calls) : calls[k].type = type})

C22_ExactlyOneOutcome ==
    \A i \in 1..Len(thunks) :
        thunks[i].pc \in {"done", "rejected"} =>
            /\ thunks[i].dispatched[1] = FetchTodosRequest
            /\ Len(thunks[i].dispatched) = 2
            /\ thunks[i].dispatched[2].type \in
                  {"FETCH_TODOS_SUCCESS", "FETCH_TODOS_FAILURE"}

(***************************************************************************)
(* C23                                                                     *)
(***************************************************************************)
\* C23: in the Counter with setCount(count + 1), every increment call made
\* from one render queues the same value, the count that render captured
\* plus one, so the k calls made before the next render raise the count by
\* exactly 1: the count is the number of renders that applied updates, and
\* applying the queued updates gives the count plus 1.
C23_CallsFromOneRenderRaiseByOne ==
    ctrForm = "value" =>
        /\ ctrCount = Len(ctrBatches)
        /\ \A j \in 1..Len(ctrQueue) : ctrQueue[j].value = ctrCaptured + 1
        /\ ctrQueue # <<>> => ApplyQueue(ctrCount, ctrQueue) = ctrCount + 1

\* Three increment calls from the first render, applied by one render: the
\* count is 1.
C23_Witness ==
    /\ ctrForm = "value"
    /\ ctrBatches = <<3>>
    /\ ctrQueue = <<>>
    /\ ctrCount = 1
    /\ ctrIncrements = 3

(***************************************************************************)
(* C24                                                                     *)
(***************************************************************************)
\* C24: whatever calls came before, with other states and other filters,
\* getVisibleItems(state, filter) returns the items of state.items whose
\* type is filter, in the order they have in state.items, state.items being
\* replaced by reducer steps and never written to.
C24_MemoizedAgreesWithFilter ==
    vsLast.called =>
        vsLast.value =
            VisibleItems(vsArrays[vsStates[vsLast.state].items], vsLast.filter)

\* A call that returned the remembered result for a new state object with
\* the same items, after a state with other items had been replaced.
C24_Witness ==
    /\ vsLast.called
    /\ ~vsLast.recomputed
    /\ vsLast.state = 3
    /\ vsStates[3].items = vsStates[2].items
    /\ vsStates[2].items # vsStates[1].items
    /\ vsCache.inputs[1] = vsStates[3].items
    /\ vsLast.value = <<[id |-> 3, type |-> "todo"], [id |-> 1, type |-> "todo"]>>
    /\ vsCalls = 2

(***************************************************************************)
(* C25                                                                     *)
(***************************************************************************)
\* The tables that normalizing payload p with the reducer's article schema
\* produces: the article with its author replaced by the author's id, and
\* the author when the article has one.
PayloadTables(p) ==
    IF "author" \in DOMAIN p
    THEN [articles |-> (p.id :> [p EXCEPT !.author = p.author.id]),
          users |-> (p.author.id :> p.author)]
    ELSE [articles |-> (p.id :> p)]

C26_ChangeSetsOneField ==
    /\ (mfLast.kind = "change" /\ mfQueue = <<>>) =>
          /\ DOMAIN mfFormData = FieldNames
          /\ mfFormData[mfLast.name] = mfLast.value
          /\ \A f \in FieldNames \ {mfLast.name} : mfFormData[f] = mfLast.before[f]
          /\ mfOut = MyForm_render(mfFormData)
    /\ mfLast.kind = "submit" =>
          /\ mfLog[Len(mfLog)] = <<"Form submitted:", mfLast.before>>
          /\ mfFormData = mfLast.before

\* The name was typed, then the email, and the update of the second change
\* is applied: both fields hold what was typed.
C26_Witness ==
    /\ mfLast.kind = "change"
    /\ mfLast.name = "email"
    /\ mfLast.before = [name |-> "Ada", email |-> ""]
    /\ mfQueue = <<>>
    /\ mfFormData = [name |-> "Ada", email |-> "ada@example.com"]

(***************************************************************************)
(* C27                                                                     *)
(***************************************************************************)
\* The components using the hook that are mounted.
MountedComponents == {i \in 1..Len(wwComps) : wwComps[i].phase = "mounted"}

\* C27 as stated: in every reachable state the number of registered resize
\* listeners is the number of mounted components using the hook, and no
\* listener of an unmounted component has called setWidth.
C27_ListenersEqualMounted ==
    /\ Cardinality(wwListeners) = Cardinality(MountedComponents)
    /\ \A i \in 1..Len(wwComps) :
          wwComps[i].setWidthsBeforeCleanup + wwComps[i].setWidthsAfterCleanup = 0

\* C27, amended: a component adds its listener once, when its effect runs,
\* and its cleanup removes that same listener: a component has its one
\* listener registered from the run of its effect to the run of its cleanup
\* and none before and after; so whenever no effect and no cleanup is
\* waiting to run, the number of registered listeners is the number of
\* mounted components; and once the cleanup of an unmounted component has
\* run, no listener of it calls setWidth.
C27_ListenerFromEffectToCleanup ==
    /\ \A i \in 1..Len(wwComps) :
          LET c == wwComps[i]
              own == {l \in wwListeners : l.owner = i}
          IN  /\ c.registered = (IF c.effect = "waiting" THEN 0 ELSE 1)
              /\ own = IF c.effect \in {"ran", "cleanup waiting"}
                       THEN {[id |-> c.handleResize, owner |-> i]} ELSE {}
              /\ (c.phase = "mounted") <=> (c.effect \in {"waiting", "ran"})
              /\ c.setWidthsAfterCleanup = 0
    /\ (\A i \in 1..Len(wwComps) : wwComps[i].effect \in {"ran", "cleaned"})
          => Cardinality(wwListeners) = Cardinality(MountedComponents)

\* One component unmounted and cleaned up after it followed a resize, the
\* other mounted with its listener, which followed a later resize that the
\* first did not.
C27_Witness ==
    /\ Len(wwComps) = 2
    /\ wwComps[1].effect = "cleaned" /\ wwComps[1].width = 768
    /\ wwComps[2].effect = "ran" /\ wwComps[2].width = 1024
    /\ wwResizes = 2
    /\ wwListeners = {[id |-> wwComps[2].handleResize, owner |-> 2]}

(***************************************************************************)
(* C28                                                                     *)
(***************************************************************************)
\* C28: with the instances of WithLogging(W) mounted and unmounted in any
\* interleaving, the number of 'is mounted' messages in the console minus
\* the number of 'is going to unmount' messages is the number of instances
\* that are mounted.
C28_MessagesCountMounted ==
    Cardinality({k \in 1..Len(log) : IsMountedMessage(log[k])})
      - Cardinality({k \in 1..Len(log) : IsUnmountMessage(log[k])})
        = Cardinality({i \in 1..Len(inst) : inst[i].phase = "mounted"})

\* Two instances mounted, then the second unmounted while the first stays:
\* two 'is mounted' messages, one 'is going to unmount', one instance
\* mounted.
C28_Witness ==
    /\ Len(inst) = 2
    /\ inst[1].phase = "mounted"
    /\ inst[2].phase = "unmounted"
    /\ Len(log) = 3
    /\ IsMountedMessage(log[1]) /\ IsMountedMessage(log[2])
    /\ IsUnmountMessage(log[3]) /\ log[3].by = 2

(***************************************************************************)
(* C29                                                                     *)
(***************************************************************************)
\* The name of w: its displayName when that is truthy, otherwise its name
\* when that is truthy, otherwise 'Component'.
NameFor(w) ==
    IF Truthy(w.displayName) THEN w.displayName.s
    ELSE IF Truthy(w.name) THEN w.name.s
    ELSE "Component"

\* C29: the displayName of the component WithLogging returned is
\* 'WithLogging(<name>)' for the name W had when it was wrapped, whatever W
\* is called since, and every message logged carries the name W had when
\* the message was logged; the name is W.displayName when that is truthy,
\* otherwise W.name when that is truthy, otherwise 'Component'.
C29_NameAtWrapAndAtLog ==
    /\ hoc # NotWrapped =>
          hoc.displayName = "WithLogging(" \o NameFor(hoc.w) \o ")"
    /\ \A k \in 1..Len(log) :
          log[k].text \in
             {"Component " \o NameFor(log[k].w) \o " is mounted",
              "Component " \o NameFor(log[k].w) \o " is going to unmount"}

\* W was wrapped as Login, mounted, then given the displayName LoginPage,
\* and unmounted: the component is still WithLogging(Login), the first
\* message names Login and the second LoginPage.
C29_Witness ==
    /\ hoc # NotWrapped
    /\ hoc.displayName = "WithLogging(Login)"
    /\ Len(log) = 2
    /\ log[1].text = "Component Login is mounted"
    /\ log[2].text = "Component LoginPage is going to unmount"
    /\ log[1].by = log[2].by

====
